---- MODULE Spec2Model ----
(***************************************************************************)
(* Model of the dashboard generator's compilation core: the layout engine, *)
(* the id generator, the panel factory and the dashboard builder.          *)
(***************************************************************************)
EXTENDS Integers, Sequences, FiniteSets, TLC

VARIABLES
    le,        \* a LayoutEngine driven directly: [cursorX, cursorY, rowHeight]
    leRet,     \* the last call on le: its arguments, its result, and the
               \* cursor and row it found: [op, w, h, x, y, preX, preY, preSum, preMax]
    rowSum,    \* sum of the widths placed in the row the cursor is in
    rowMax,    \* tallest height placed in the row the cursor is in
    replay,    \* a new engine given the Place calls made on le since its last
               \* Reset, while no other call came between: [on, dirty, le, x, y]
    config,    \* the loaded Config: datasource and variable tables
    idGen,     \* the builder's Factory.IDGen
    layout,    \* the builder's Layout
    pc,        \* where the builder's caller is: idle, in Build, or holding its result
    args,      \* the arguments of the Build under way: dbCfg, discoverySections
    secIdx,    \* the section the loop under way is at
    allPanels, \* Build's allPanels
    templating,\* Build's variables
    result,    \* what the last Build returned
    entry,     \* how that Build found the builder: new, used, or left mid-row
    fCall,     \* the last call made on the factory directly
    fCfg,      \* the panel spec of that call
    fOut,      \* what it returned: [ok, panel]
    fLastId,   \* the id of the panel last constructed before that call, 0 when
               \* none was since the generator was made or reset
    rCall,     \* the last resolver called on the Config
    rIn,       \* its argument
    rOut,      \* what it returned
    rAgain,    \* what the resolver returns for what it returned
    authored,  \* the variable definitions as the configuration file has them
    bCall,     \* the last call made on a builder's BuildVariable or
               \* BuildNavigationLinks
    bIn,       \* its arguments
    bOut,      \* what it returned
    bld        \* two builders, each with its own generator and engine, at
               \* work at the same time

layoutVars == <<le, leRet, rowSum, rowMax, replay>>

factoryVars == <<fCall, fCfg, fOut, fLastId>>

resolverVars == <<rCall, rIn, rOut, rAgain>>

callVars == <<authored, bCall, bIn, bOut>>

buildVars == <<config, idGen, layout, pc, args, secIdx, allPanels, templating,
               result, entry>>

vars == <<le, leRet, rowSum, rowMax, replay, config, idGen, layout, pc, args, secIdx,
          allPanels, templating, result, entry, fCall, fCfg, fOut, fLastId, rCall, rIn, rOut, rAgain,
          authored, bCall, bIn, bOut, bld>>

----------------------------------------------------------------------------
(* Bounds of the model.                                                    *)

\* Widths handed to Place: 1..MaxWidth, one more than the grid is wide.
MaxWidth == 25
\* Heights handed to Place: 1..MaxHeight.
MaxHeight == 2
\* Place, AddRow are not called once the cursor is at or below this line.
MaxY == 6
\* A dashboard has at most MaxSections sections, its own and discovered.
MaxSections == 2
\* A section has at most MaxPanels panel specs.
MaxPanels == 2
\* The factory is not called once its counter has reached MaxIds.
MaxIds == 3
\* Pieces to a reference string, atoms to a color string, entries to an
\* inline threshold list.
MaxLen == 3

----------------------------------------------------------------------------
(* LayoutEngine                                                            *)

\* The standard 24-unit grid.
GridWidth == 24

Max(a, b) == IF a > b THEN a ELSE b

NewLayoutEngine == [cursorX |-> 0, cursorY |-> 0, rowHeight |-> 0]

\* Reset leaving the cursor where it is.
LayoutEngineReset_Keep(l) == l

\* Reset forgetting the height of the row it found.
LayoutEngineReset_KeepRowHeight(l) ==
    [cursorX |-> 0, cursorY |-> 0, rowHeight |-> l.rowHeight]

LayoutEngineReset(l) == [cursorX |-> 0, cursorY |-> 0, rowHeight |-> 0]

\* Leaving a row without moving below it.
LeaveRow_KeepY(l) ==
    IF l.cursorX > 0
    THEN [cursorX |-> 0, cursorY |-> l.cursorY, rowHeight |-> 0]
    ELSE l

\* The wrap shared by AddRow and FinishSection: leave a row that holds panels.
LeaveRow(l) ==
    IF l.cursorX > 0
    THEN [cursorX |-> 0, cursorY |-> l.cursorY + l.rowHeight, rowHeight |-> 0]
    ELSE l

\* AddRow that reserves no height for the row panel.
AddRow_NoReserve(l) ==
    LET a == LeaveRow(l)
    IN  [y  |-> a.cursorY,
         le |-> [cursorX |-> 0, cursorY |-> a.cursorY, rowHeight |-> 0]]

\* AddRow: the y of the row panel, and the engine after reserving one unit.
AddRow(l) ==
    LET a == LeaveRow(l)
    IN  [y  |-> a.cursorY,
         le |-> [cursorX |-> 0, cursorY |-> a.cursorY + 1, rowHeight |-> 0]]

\* Place with the wrap taken one unit early: a panel as wide as the rest of
\* the row is sent to the next row.
Place_WrapAtEqual(l, width, height) ==
    LET a == IF l.cursorX + width >= GridWidth
             THEN [cursorX |-> 0, cursorY |-> l.cursorY + l.rowHeight,
                   rowHeight |-> 0]
             ELSE l
    IN  [x  |-> a.cursorX,
         y  |-> a.cursorY,
         le |-> [cursorX   |-> a.cursorX + width,
                 cursorY   |-> a.cursorY,
                 rowHeight |-> Max(a.rowHeight, height)]]

\* Place that takes the height of the panel it places for the height of the
\* row, whatever the row holds already.
Place_LastHeight(l, width, height) ==
    LET a == IF l.cursorX + width > GridWidth
             THEN [cursorX |-> 0, cursorY |-> l.cursorY + l.rowHeight,
                   rowHeight |-> 0]
             ELSE l
    IN  [x  |-> a.cursorX,
         y  |-> a.cursorY,
         le |-> [cursorX   |-> a.cursorX + width,
                 cursorY   |-> a.cursorY,
                 rowHeight |-> height]]

\* Place: the (x, y) of the panel, and the engine after it.
Place(l, width, height) ==
    LET a == IF l.cursorX + width > GridWidth
             THEN [cursorX |-> 0, cursorY |-> l.cursorY + l.rowHeight,
                   rowHeight |-> 0]
             ELSE l
    IN  [x  |-> a.cursorX,
         y  |-> a.cursorY,
         le |-> [cursorX   |-> a.cursorX + width,
                 cursorY   |-> a.cursorY,
                 rowHeight |-> Max(a.rowHeight, height)]]

FinishSection(l) == LeaveRow(l)

----------------------------------------------------------------------------
(* IDGenerator: the counter is the last id handed out.                     *)

NewIDGenerator == 0

\* Reset leaving the counter where it is.
IDGeneratorReset_Keep(g) == g

IDGeneratorReset(g) == 0

\* Next: the counter after the call, which is also the id returned.
IDGeneratorNext(g) == g + 1

----------------------------------------------------------------------------
(* Config: the datasource table and the variable table.  A table is a      *)
(* function from the names it defines; an optional value of a spec is a    *)
(* sequence, empty when the key is absent.                                 *)

\* GetDatasource: ok is FALSE for a name the table does not define.
GetDatasource(c, name) ==
    IF name \in DOMAIN c.Datasources
    THEN [ok |-> TRUE,
          ref |-> [type |-> c.Datasources[name].Type,
                   uid  |-> c.Datasources[name].UID]]
    ELSE [ok |-> FALSE, ref |-> [type |-> "", uid |-> ""]]

\* GetDefaultDatasource: the entry flagged is_default, else the first entry of
\* the table, else the built-in reference.  The tables of the model are those
\* in which the order a map is ranged over cannot change the answer.
GetDefaultDatasource(c) ==
    LET flagged == {n \in DOMAIN c.Datasources : c.Datasources[n].IsDefault}
    IN  IF flagged # {}
        THEN LET n == CHOOSE n \in flagged : TRUE
             IN  [type |-> c.Datasources[n].Type, uid |-> c.Datasources[n].UID]
        ELSE IF DOMAIN c.Datasources # {}
        THEN LET n == CHOOSE n \in DOMAIN c.Datasources : TRUE
             IN  [type |-> c.Datasources[n].Type, uid |-> c.Datasources[n].UID]
        ELSE [type |-> "prometheus", uid |-> "prometheus"]

\* VariableDef with IncludeAll set where a definition says nothing of it.
ZeroVariableDef_IncludeAll ==
    [Type |-> "", Datasource |-> "", Query |-> <<>>, Multi |-> FALSE,
     IncludeAll |-> TRUE, Refresh |-> 0, Sort |-> 0, Label |-> "", Hide |-> 0,
     Regex |-> "", AllValue |-> "", Values |-> "", DsType |-> "",
     Auto |-> FALSE, AutoCount |-> 0, AutoMin |-> "",
     Default |-> [Text |-> "", Value |-> ""]]

\* VariableDef with every field at its zero value, as a definition that sets
\* no key is loaded.
ZeroVariableDef ==
    [Type |-> "", Datasource |-> "", Query |-> <<>>, Multi |-> FALSE,
     IncludeAll |-> FALSE, Refresh |-> 0, Sort |-> 0, Label |-> "", Hide |-> 0,
     Regex |-> "", AllValue |-> "", Values |-> "", DsType |-> "",
     Auto |-> FALSE, AutoCount |-> 0, AutoMin |-> "",
     Default |-> [Text |-> "", Value |-> ""]]

\* The yaml key of each field of VariableDef.
YamlKey ==
    [Type |-> "type", Datasource |-> "datasource", Query |-> "query",
     Multi |-> "multi", IncludeAll |-> "include_all", Refresh |-> "refresh",
     Sort |-> "sort", Label |-> "label", Hide |-> "hide", Regex |-> "regex",
     AllValue |-> "all_value", Values |-> "values", DsType |-> "ds_type",
     Auto |-> "auto", AutoCount |-> "auto_count", AutoMin |-> "auto_min",
     Default |-> "default"]

\* A variable definition as the configuration file is loaded: a field has the
\* value of its key, and its zero value when the definition lacks the key.
loadVariableDef(yaml) ==
    [f \in DOMAIN ZeroVariableDef |->
        IF YamlKey[f] \in DOMAIN yaml THEN yaml[YamlKey[f]]
        ELSE ZeroVariableDef[f]]

\* GetVariableDef: the definition of a name the variable table has.
GetVariableDef(c, name) ==
    IF name \in DOMAIN c.Variables
    THEN [ok |-> TRUE, v |-> c.Variables[name]]
    ELSE [ok |-> FALSE, v |-> ZeroVariableDef]

\* A string that reference resolution reads is a sequence of atoms: "$", "{"
\* and "}" each on their own, the atoms of WordAtoms, made of word characters
\* only, and any other atom, which holds a character that is none of these.
\* The empty string is <<>>.  A table is keyed by single word atoms.
WordAtoms == {"k", "s", "e", "c", "u", "m", "up", "e0", "e1"}

\* The first position from j on that holds no word atom.
RECURSIVE wordRunEnd(_, _)
wordRunEnd(value, j) ==
    IF j <= Len(value) /\ value[j] \in WordAtoms
    THEN wordRunEnd(value, j + 1)
    ELSE j

\* bracedRefRe, \$\{(\w+)\}, tried at position i: the position of the closing
\* brace of the match, or 0 when there is no match at i.
bracedRefEnd(value, i) ==
    IF i + 1 <= Len(value) /\ value[i] = "$" /\ value[i + 1] = "{"
    THEN LET j == wordRunEnd(value, i + 2)
         IN  IF j > i + 2 /\ j <= Len(value) /\ value[j] = "}" THEN j ELSE 0
    ELSE 0

\* GetConstant, GetSelector: the entry, or the empty string without one.
GetConstant(c, name) ==
    IF Len(name) = 1 /\ name[1] \in DOMAIN c.Constants
    THEN c.Constants[name[1]] ELSE <<>>

GetSelector(c, name) ==
    IF Len(name) = 1 /\ name[1] \in DOMAIN c.Selectors
    THEN c.Selectors[name[1]] ELSE <<>>

\* The replacement function of ResolveRef: a non-empty constant, else a
\* non-empty selector, else the match itself.
resolveMatch_DropUndefined(c, refName, match) ==
    IF GetConstant(c, refName) # <<>> THEN GetConstant(c, refName)
    ELSE IF GetSelector(c, refName) # <<>> THEN GetSelector(c, refName)
    ELSE <<>>

resolveMatch(c, refName, match) ==
    IF GetConstant(c, refName) # <<>> THEN GetConstant(c, refName)
    ELSE IF GetSelector(c, refName) # <<>> THEN GetSelector(c, refName)
    ELSE match

\* ReplaceAllStringFunc from position i on: matches are taken leftmost first,
\* do not overlap, and what replaces a match is not scanned again.
RECURSIVE replaceAllFrom(_, _, _)
replaceAllFrom(c, value, i) ==
    IF i > Len(value) THEN <<>>
    ELSE LET e == bracedRefEnd(value, i)
         IN  IF e = 0
             THEN <<value[i]>> \o replaceAllFrom(c, value, i + 1)
             ELSE resolveMatch(c, SubSeq(value, i + 2, e - 1), SubSeq(value, i, e))
                  \o replaceAllFrom(c, value, e + 1)

ResolveRef(c, value) == replaceAllFrom(c, value, 1)

\* strings.HasPrefix(value, "$")
HasDollarPrefix(value) == value # <<>> /\ value[1] = "$"

\* resolveColorName giving back the reference for a name the palette lacks.
resolveColorName_KeepDollar(c, name) ==
    IF Len(name) = 1 /\ name[1] \in DOMAIN c.palette
    THEN c.palette[name[1]] ELSE <<"$">> \o name

\* resolveColorName: the palette's entry for the name, or the name itself.
resolveColorName(c, name) ==
    IF Len(name) = 1 /\ name[1] \in DOMAIN c.palette
    THEN c.palette[name[1]] ELSE name

\* ResolveColor: a value with a leading "$" is looked up without it.
ResolveColor(c, value) ==
    IF HasDollarPrefix(value) THEN resolveColorName(c, Tail(value)) ELSE value

\* No steps (a nil slice).
NoSteps == <<>>

\* GetThresholds handing out the steps as authored.
GetThresholds_Raw(c, name) ==
    IF Len(name) = 1 /\ name[1] \in DOMAIN c.Thresholds
    THEN c.Thresholds[name[1]]
    ELSE NoSteps

\* GetThresholds: the steps of the named set, the colors with a leading "$"
\* resolved; no steps for a name the table does not define.
GetThresholds(c, name) ==
    IF Len(name) = 1 /\ name[1] \in DOMAIN c.Thresholds
    THEN LET t == c.Thresholds[name[1]]
         IN  [i \in 1..Len(t) |->
                 IF HasDollarPrefix(t[i].Color)
                 THEN [t[i] EXCEPT !.Color = resolveColorName(c, Tail(t[i].Color))]
                 ELSE t[i]]
    ELSE NoSteps

\* ResolveThresholds: value is a string, [kind |-> "string", str |-> ...], or
\* a list of maps, [kind |-> "list", items |-> ...], each map with a value
\* and, when color is not <<>>, a color string.  A string without a leading
\* "$" gives no steps.
ResolveThresholds(c, value) ==
    IF value.kind = "string"
    THEN IF HasDollarPrefix(value.str)
         THEN GetThresholds(c, Tail(value.str))
         ELSE NoSteps
    ELSE [i \in 1..Len(value.items) |->
             LET m == value.items[i]
             IN  [Color |-> IF m.color # <<>>
                            THEN IF HasDollarPrefix(m.color[1])
                                 THEN resolveColorName(c, Tail(m.color[1]))
                                 ELSE m.color[1]
                            ELSE <<>>,
                  Value |-> m.value]]

----------------------------------------------------------------------------
(* Helpers over a spec map.                                                *)

\* getInt: the value under the key, or def when the key is absent.
getInt(v, def) == IF v = <<>> THEN def ELSE v[1]

hasKey(v) == v # <<>>

\* string(rune('A' + i)) for the first positions of a target list.
RefIDs == <<"A", "B", "C", "D", "E", "F">>

refID(i) == RefIDs[i + 1]

----------------------------------------------------------------------------
(* PanelFactory                                                            *)

\* DefaultSizes with the text panel as tall as a table.
DefaultSizes_TallText ==
    [stat |-> <<3, 4>>, gauge |-> <<3, 4>>, timeseries |-> <<12, 7>>,
     bargauge |-> <<6, 5>>, heatmap |-> <<12, 8>>, histogram |-> <<12, 7>>,
     table |-> <<24, 8>>, piechart |-> <<6, 6>>,
     row |-> <<24, 1>>, comparison |-> <<12, 8>>]
    @@ ("state-timeline" :> <<12, 5>>) @@ ("status-history" :> <<12, 5>>)
    @@ ("text" :> <<24, 8>>) @@ ("logs" :> <<24, 8>>)

\* DefaultSizes: panel type -> <<width, height>>.
DefaultSizes ==
    [stat |-> <<3, 4>>, gauge |-> <<3, 4>>, timeseries |-> <<12, 7>>,
     bargauge |-> <<6, 5>>, heatmap |-> <<12, 8>>, histogram |-> <<12, 7>>,
     table |-> <<24, 8>>, piechart |-> <<6, 6>>,
     row |-> <<24, 1>>, comparison |-> <<12, 8>>]
    @@ ("state-timeline" :> <<12, 5>>) @@ ("status-history" :> <<12, 5>>)
    @@ ("text" :> <<24, 3>>) @@ ("logs" :> <<24, 8>>)

\* The tags FromConfig dispatches to a constructor that cannot fail.
PlainTypes ==
    {"stat", "gauge", "timeseries", "bargauge", "heatmap", "histogram",
     "table", "piechart", "state-timeline", "status-history", "text", "logs"}

\* ds trusting the lookup of any name given, found or not.
ds_IgnoreError(c, cfg) ==
    IF cfg.datasource # ""
    THEN GetDatasource(c, cfg.datasource).ref
    ELSE GetDefaultDatasource(c)

\* ds: the named datasource when the table has it, else the default.
ds(c, cfg) ==
    IF cfg.datasource # "" /\ GetDatasource(c, cfg.datasource).ok
    THEN GetDatasource(c, cfg.datasource).ref
    ELSE GetDefaultDatasource(c)

\* target: one query target, the references of its expression resolved.
target(c, expr, refId, datasource) ==
    [datasource |-> datasource, expr |-> ResolveRef(c, expr), refId |-> refId]

\* The targets of an explicit list, entry i (from 0) getting refId 'A' + i and
\* its own datasource when it names one the table has.
RECURSIVE listTargets(_, _, _, _)
listTargets(c, targetList, i, datasource) ==
    IF i >= Len(targetList) THEN <<>>
    ELSE LET t   == targetList[i + 1]
             tDS == IF t.datasource # <<>> /\ GetDatasource(c, t.datasource[1]).ok
                    THEN GetDatasource(c, t.datasource[1]).ref
                    ELSE datasource
         IN  <<target(c, t.expr, refID(i), tDS)>>
             \o listTargets(c, targetList, i + 1, datasource)

\* buildTargets: the query shorthand as target "A", then the explicit list.
buildTargets(c, cfg) ==
    LET datasource == ds(c, cfg)
        fromQuery  == IF cfg.query # <<>>
                      THEN <<target(c, cfg.query[1], "A", datasource)>>
                      ELSE <<>>
    IN  fromQuery \o listTargets(c, cfg.targets, 0, datasource)

\* Row spanning half the grid.
Row_HalfWidth(title, y, collapsed, panels, g) ==
    [panel |-> [type      |-> "row",
                title     |-> title,
                collapsed |-> collapsed,
                gridPos   |-> [h |-> 1, w |-> 12, x |-> 0, y |-> y],
                id        |-> IDGeneratorNext(g),
                panels    |-> panels],
     idGen |-> IDGeneratorNext(g)]

\* Row: the section header, with the next id.
Row(title, y, collapsed, panels, g) ==
    [panel |-> [type      |-> "row",
                title     |-> title,
                collapsed |-> collapsed,
                gridPos   |-> [h |-> 1, w |-> 24, x |-> 0, y |-> y],
                id        |-> IDGeneratorNext(g),
                panels    |-> panels],
     idGen |-> IDGeneratorNext(g)]

\* Stat, Gauge, Timeseries, ..., Logs: the constructors of the twelve plain
\* types, alike in datasource, grid position, id and targets; a text panel
\* has no targets.
DataPanel(c, cfg, x, y, g) ==
    LET w    == getInt(cfg.width, DefaultSizes[cfg.type][1])
        h    == getInt(cfg.height, DefaultSizes[cfg.type][2])
        base == [type       |-> cfg.type,
                 title      |-> cfg.title,
                 datasource |-> ds(c, cfg),
                 gridPos    |-> [h |-> h, w |-> w, x |-> x, y |-> y],
                 id         |-> IDGeneratorNext(g)]
    IN  [ok    |-> TRUE,
         panel |-> IF cfg.type = "text"
                   THEN base
                   ELSE base @@ [targets |-> buildTargets(c, cfg)],
         idGen |-> IDGeneratorNext(g)]

NoPanel == [type |-> "nil"]

\* The targets of a comparison panel, every metric taken for a counter.
RECURSIVE comparisonTargets_AlwaysRate(_, _, _)
comparisonTargets_AlwaysRate(c, cfg, i) ==
    IF i >= Len(cfg.datasources) THEN <<>>
    ELSE LET expr == <<"rate(">> \o cfg.metric \o <<"[5m])">>
         IN  <<target(c, expr, refID(i),
                      GetDatasource(c, cfg.datasources[i + 1]).ref)>>
             \o comparisonTargets_AlwaysRate(c, cfg, i + 1)

\* The targets of a comparison panel, one per named datasource.
RECURSIVE comparisonTargets(_, _, _)
comparisonTargets(c, cfg, i) ==
    IF i >= Len(cfg.datasources) THEN <<>>
    ELSE LET expr == IF cfg.metric_type = "counter"
                     THEN <<"rate(">> \o cfg.metric \o <<"[5m])">>
                     ELSE cfg.metric
         IN  <<target(c, expr, refID(i),
                      GetDatasource(c, cfg.datasources[i + 1]).ref)>>
             \o comparisonTargets(c, cfg, i + 1)

\* Comparison taking its id before it validates the datasource list.
Comparison_IdBeforeCheck(c, cfg, x, y, g) ==
    LET w == getInt(cfg.width, DefaultSizes["comparison"][1])
        h == getInt(cfg.height, DefaultSizes["comparison"][2])
    IN  IF Len(cfg.datasources) < 2
           \/ \E i \in 1..Len(cfg.datasources) :
                 ~GetDatasource(c, cfg.datasources[i]).ok
        THEN [ok |-> FALSE, panel |-> NoPanel, idGen |-> IDGeneratorNext(g)]
        ELSE [ok    |-> TRUE,
              panel |-> [type       |-> "timeseries",
                         title      |-> cfg.title,
                         datasource |-> [type |-> "datasource", uid |-> "-- Mixed --"],
                         gridPos    |-> [h |-> h, w |-> w, x |-> x, y |-> y],
                         id         |-> IDGeneratorNext(g),
                         targets    |-> comparisonTargets(c, cfg, 0)],
              idGen |-> IDGeneratorNext(g)]

\* Comparison: fails with fewer than 2 datasources, or with a name the table
\* does not define; no id is taken on failure.
Comparison(c, cfg, x, y, g) ==
    LET w == getInt(cfg.width, DefaultSizes["comparison"][1])
        h == getInt(cfg.height, DefaultSizes["comparison"][2])
    IN  IF Len(cfg.datasources) < 2
           \/ \E i \in 1..Len(cfg.datasources) :
                 ~GetDatasource(c, cfg.datasources[i]).ok
        THEN [ok |-> FALSE, panel |-> NoPanel, idGen |-> g]
        ELSE [ok    |-> TRUE,
              panel |-> [type       |-> "timeseries",
                         title      |-> cfg.title,
                         datasource |-> [type |-> "datasource", uid |-> "-- Mixed --"],
                         gridPos    |-> [h |-> h, w |-> w, x |-> x, y |-> y],
                         id         |-> IDGeneratorNext(g),
                         targets    |-> comparisonTargets(c, cfg, 0)],
              idGen |-> IDGeneratorNext(g)]

\* FromConfig: dispatch on the type tag; an unknown tag is an error.
FromConfig(c, cfg, x, y, g) ==
    IF cfg.type \in PlainTypes THEN DataPanel(c, cfg, x, y, g)
    ELSE IF cfg.type = "comparison" THEN Comparison(c, cfg, x, y, g)
    ELSE [ok |-> FALSE, panel |-> NoPanel, idGen |-> g]

----------------------------------------------------------------------------
(* DashboardBuilder                                                        *)

\* BuildVariable: fails for a name the variable table does not define.
defaultStr(str, def) == IF str = "" THEN def ELSE str

\* BuildNavigationLinks listing the links last name first.
RECURSIVE BuildNavigationLinks_Reversed(_, _)
BuildNavigationLinks_Reversed(dashboards, order) ==
    IF order = <<>> THEN <<>>
    ELSE BuildNavigationLinks_Reversed(dashboards, Tail(order))
         \o (IF Head(order) \notin DOMAIN dashboards THEN <<>>
             ELSE <<[title       |-> dashboards[Head(order)].Title,
                     type        |-> "link",
                     url         |-> <<"/d/", dashboards[Head(order)].UID>>,
                     icon        |-> defaultStr(dashboards[Head(order)].Icon, "apps"),
                     targetBlank |-> FALSE,
                     keepTime    |-> TRUE,
                     includeVars |-> TRUE,
                     tooltip     |-> dashboards[Head(order)].Description]>>)

\* BuildNavigationLinks: a link for every name of order that dashboards has,
\* in that order; the url is "/d/" followed by the uid.
RECURSIVE BuildNavigationLinks(_, _)
BuildNavigationLinks(dashboards, order) ==
    IF order = <<>> THEN <<>>
    ELSE (IF Head(order) \notin DOMAIN dashboards THEN <<>>
          ELSE <<[title       |-> dashboards[Head(order)].Title,
                  type        |-> "link",
                  url         |-> <<"/d/", dashboards[Head(order)].UID>>,
                  icon        |-> defaultStr(dashboards[Head(order)].Icon, "apps"),
                  targetBlank |-> FALSE,
                  keepTime    |-> TRUE,
                  includeVars |-> TRUE,
                  tooltip     |-> dashboards[Head(order)].Description]>>)
         \o BuildNavigationLinks(dashboards, Tail(order))

NoVariable == <<>>

\* r without the keys in keys.
Without(r, keys) == [k \in DOMAIN r \ keys |-> r[k]]

\* The variable object of the definition v of name, before its kind is looked
\* at: the "All" sentinel is the current selection of a definition with
\* IncludeAll, the definition's default that of any other.
varDefOf(c, name, v, query) ==
    [current     |-> IF v.IncludeAll
                     THEN [selected |-> TRUE, text |-> "All", value |-> "$__all"]
                     ELSE [selected |-> TRUE, text |-> v.Default.Text,
                           value |-> v.Default.Value],
     datasource  |-> IF v.Datasource # "" /\ GetDatasource(c, v.Datasource).ok
                     THEN GetDatasource(c, v.Datasource).ref
                     ELSE GetDefaultDatasource(c),
     definition  |-> query,
     hide        |-> v.Hide,
     includeAll  |-> v.IncludeAll,
     label       |-> IF v.Label = "" THEN name ELSE v.Label,
     multi       |-> v.Multi,
     name        |-> name,
     options     |-> <<>>,
     query       |-> [query |-> query, refId |-> "StandardVariableQuery"],
     refresh     |-> IF v.Refresh = 0 THEN 2 ELSE v.Refresh,
     regex       |-> v.Regex,
     skipUrlSync |-> FALSE,
     sort        |-> IF v.Sort = 0 THEN 1 ELSE v.Sort,
     type        |-> IF v.Type = "" THEN "query" ELSE v.Type]
    @@ (IF v.AllValue # "" THEN [allValue |-> v.AllValue] ELSE <<>>)

\* The switch of BuildVariable on the kind: custom, datasource and interval
\* variables get their own query and lose datasource and definition.
byKind(v, varDef) ==
    IF varDef.type = "custom"
    THEN [Without(varDef, {"datasource", "definition"})
             EXCEPT !.query = v.Values]
    ELSE IF varDef.type = "datasource"
    THEN [Without(varDef, {"datasource", "definition"})
             EXCEPT !.query = IF v.DsType = "" THEN "prometheus" ELSE v.DsType]
    ELSE IF varDef.type = "interval"
    THEN [Without(varDef, {"datasource", "definition"})
             EXCEPT !.query = IF v.Values = ""
                              THEN "1m,5m,15m,30m,1h,6h,12h,1d" ELSE v.Values]
         @@ [auto       |-> v.Auto,
             auto_count |-> IF v.AutoCount = 0 THEN 10 ELSE v.AutoCount,
             auto_min   |-> IF v.AutoMin = "" THEN "10s" ELSE v.AutoMin]
    ELSE varDef

\* BuildVariable keeping datasource and definition whatever the kind.
BuildVariable_KeepKeys(c, name) ==
    IF GetVariableDef(c, name).ok
    THEN [ok |-> TRUE,
          v  |-> varDefOf(c, name, GetVariableDef(c, name).v,
                          ResolveRef(c, GetVariableDef(c, name).v.Query))]
    ELSE [ok |-> FALSE, v |-> NoVariable]

\* BuildVariable: fails for a name the variable table does not define.
BuildVariable(c, name) ==
    IF GetVariableDef(c, name).ok
    THEN [ok |-> TRUE,
          v  |-> byKind(GetVariableDef(c, name).v,
                        varDefOf(c, name, GetVariableDef(c, name).v,
                                 ResolveRef(c, GetVariableDef(c, name).v.Query)))]
    ELSE [ok |-> FALSE, v |-> NoVariable]

\* BuildVariables: the variables in order, or the first failure.
BuildVariables(c, varNames) ==
    IF \E i \in 1..Len(varNames) : ~BuildVariable(c, varNames[i]).ok
    THEN [ok |-> FALSE, vars |-> <<>>]
    ELSE [ok |-> TRUE,
          vars |-> [i \in 1..Len(varNames) |-> BuildVariable(c, varNames[i]).v]]

\* The loop skipping a spec whose construction failed, where the code
\* returns the error.
RECURSIVE BuildPanels_SkipFailed(_, _, _, _, _, _)
BuildPanels_SkipFailed(c, Panels, i, g, lay, acc) ==
    IF i > Len(Panels)
    THEN [ok |-> TRUE, panels |-> acc, idGen |-> g, layout |-> lay]
    ELSE LET pcfg == Panels[i]
             dsz  == IF pcfg.type \in DOMAIN DefaultSizes
                     THEN DefaultSizes[pcfg.type] ELSE <<6, 4>>
             w    == getInt(pcfg.width, dsz[1])
             h    == getInt(pcfg.height, dsz[2])
             pos  == IF hasKey(pcfg.x) /\ hasKey(pcfg.y)
                     THEN [x |-> getInt(pcfg.x, 0), y |-> getInt(pcfg.y, 0),
                           le |-> lay]
                     ELSE Place(lay, w, h)
             Rest(r) ==
                 BuildPanels_SkipFailed(c, Panels, i + 1, r.idGen, pos.le,
                                        IF r.ok THEN Append(acc, r.panel)
                                        ELSE acc)
         IN  Rest(FromConfig(c, pcfg, pos.x, pos.y, g))

\* The loop moving the cursor for a spec that has its own x and y as well.
RECURSIVE BuildPanels_FixedMovesCursor(_, _, _, _, _, _)
BuildPanels_FixedMovesCursor(c, Panels, i, g, lay, acc) ==
    IF i > Len(Panels)
    THEN [ok |-> TRUE, panels |-> acc, idGen |-> g, layout |-> lay]
    ELSE LET pcfg == Panels[i]
             dsz  == IF pcfg.type \in DOMAIN DefaultSizes
                     THEN DefaultSizes[pcfg.type] ELSE <<6, 4>>
             w    == getInt(pcfg.width, dsz[1])
             h    == getInt(pcfg.height, dsz[2])
             pos  == IF hasKey(pcfg.x) /\ hasKey(pcfg.y)
                     THEN [x |-> getInt(pcfg.x, 0), y |-> getInt(pcfg.y, 0),
                           le |-> Place(lay, w, h).le]
                     ELSE Place(lay, w, h)
             Rest(r) ==
                 IF ~r.ok
                 THEN [ok |-> FALSE, panels |-> <<>>, idGen |-> r.idGen,
                       layout |-> pos.le]
                 ELSE BuildPanels_FixedMovesCursor(c, Panels, i + 1, r.idGen,
                                                   pos.le, Append(acc, r.panel))
         IN  Rest(FromConfig(c, pcfg, pos.x, pos.y, g))

\* The loop over a section's panel specs, from spec i on: the size is the
\* spec's or the type's default (6 x 4 for a type without one), the position
\* is the spec's x and y when it has both and Place's otherwise, and the first
\* failed construction ends the loop with the engine and counter as they are.
RECURSIVE BuildPanels(_, _, _, _, _, _)
BuildPanels(c, Panels, i, g, lay, acc) ==
    IF i > Len(Panels)
    THEN [ok |-> TRUE, panels |-> acc, idGen |-> g, layout |-> lay]
    ELSE LET pcfg == Panels[i]
             dsz  == IF pcfg.type \in DOMAIN DefaultSizes
                     THEN DefaultSizes[pcfg.type] ELSE <<6, 4>>
             w    == getInt(pcfg.width, dsz[1])
             h    == getInt(pcfg.height, dsz[2])
             pos  == IF hasKey(pcfg.x) /\ hasKey(pcfg.y)
                     THEN [x |-> getInt(pcfg.x, 0), y |-> getInt(pcfg.y, 0),
                           le |-> lay]
                     ELSE Place(lay, w, h)
             Rest(r) ==
                 IF ~r.ok
                 THEN [ok |-> FALSE, panels |-> <<>>, idGen |-> r.idGen,
                       layout |-> pos.le]
                 ELSE BuildPanels(c, Panels, i + 1, r.idGen, pos.le,
                                  Append(acc, r.panel))
         IN  Rest(FromConfig(c, pcfg, pos.x, pos.y, g))

\* BuildSection emitting the children of a collapsed section after its row
\* as well as inside it.
BuildSection_ChildrenOnTop(c, section, g, lay) ==
    IF section.Collapsed
    THEN LET a == AddRow(lay)
             Inside(r) ==
                 IF ~r.ok
                 THEN [ok |-> FALSE, panels |-> <<>>, idGen |-> r.idGen,
                       layout |-> lay]
                 ELSE [ok |-> TRUE,
                       panels |-> <<Row(section.Title, a.y, TRUE, r.panels,
                                        r.idGen).panel>> \o r.panels,
                       idGen |-> Row(section.Title, a.y, TRUE, r.panels,
                                     r.idGen).idGen,
                       layout |-> a.le]
         IN  Inside(BuildPanels(c, section.Panels, 1, g, NewLayoutEngine, <<>>))
    ELSE LET a   == AddRow(lay)
             row == Row(section.Title, a.y, FALSE, <<>>, g)
             Under(r) ==
                 IF ~r.ok
                 THEN [ok |-> FALSE, panels |-> <<>>, idGen |-> r.idGen,
                       layout |-> r.layout]
                 ELSE [ok |-> TRUE, panels |-> <<row.panel>> \o r.panels,
                       idGen |-> r.idGen, layout |-> FinishSection(r.layout)]
         IN  Under(BuildPanels(c, section.Panels, 1, row.idGen, a.le, <<>>))

\* BuildSection placing the children of a collapsed section with the
\* dashboard's own engine.
BuildSection_SharedLayout(c, section, g, lay) ==
    IF section.Collapsed
    THEN LET Inside(r) ==
                 IF ~r.ok
                 THEN [ok |-> FALSE, panels |-> <<>>, idGen |-> r.idGen,
                       layout |-> r.layout]
                 ELSE [ok |-> TRUE,
                       panels |-> <<Row(section.Title, AddRow(r.layout).y, TRUE,
                                        r.panels, r.idGen).panel>>,
                       idGen |-> Row(section.Title, AddRow(r.layout).y, TRUE,
                                     r.panels, r.idGen).idGen,
                       layout |-> AddRow(r.layout).le]
         IN  Inside(BuildPanels(c, section.Panels, 1, g, lay, <<>>))
    ELSE LET a   == AddRow(lay)
             row == Row(section.Title, a.y, FALSE, <<>>, g)
             Under(r) ==
                 IF ~r.ok
                 THEN [ok |-> FALSE, panels |-> <<>>, idGen |-> r.idGen,
                       layout |-> r.layout]
                 ELSE [ok |-> TRUE, panels |-> <<row.panel>> \o r.panels,
                       idGen |-> r.idGen, layout |-> FinishSection(r.layout)]
         IN  Under(BuildPanels(c, section.Panels, 1, row.idGen, a.le, <<>>))

\* BuildSection: the panels a section adds to the dashboard, and the counter
\* and the dashboard's engine after it.
BuildSection(c, section, g, lay) ==
    IF section.Collapsed
    THEN LET a == AddRow(lay)
             Inside(r) ==
                 IF ~r.ok
                 THEN [ok |-> FALSE, panels |-> <<>>, idGen |-> r.idGen,
                       layout |-> lay]
                 ELSE [ok |-> TRUE,
                       panels |-> <<Row(section.Title, a.y, TRUE, r.panels,
                                        r.idGen).panel>>,
                       idGen |-> Row(section.Title, a.y, TRUE, r.panels,
                                     r.idGen).idGen,
                       layout |-> a.le]
         IN  Inside(BuildPanels(c, section.Panels, 1, g, NewLayoutEngine, <<>>))
    ELSE LET a   == AddRow(lay)
             row == Row(section.Title, a.y, FALSE, <<>>, g)
             Under(r) ==
                 IF ~r.ok
                 THEN [ok |-> FALSE, panels |-> <<>>, idGen |-> r.idGen,
                       layout |-> r.layout]
                 ELSE [ok |-> TRUE, panels |-> <<row.panel>> \o r.panels,
                       idGen |-> r.idGen, layout |-> FinishSection(r.layout)]
         IN  Under(BuildPanels(c, section.Panels, 1, row.idGen, a.le, <<>>))

\* What Build returns: an error and no document, or a document.
Failed == [err |-> TRUE, doc |-> <<>>]

Document(dbCfg, variables, panels) ==
    [err |-> FALSE,
     doc |-> <<[uid        |-> dbCfg.UID,
                panels     |-> panels,
                templating |-> variables]>>]

\* The two loops of Build over the sections secs, from section i on.
RECURSIVE BuildSections(_, _, _, _, _, _)
BuildSections(c, secs, i, g, lay, acc) ==
    IF i > Len(secs)
    THEN [ok |-> TRUE, panels |-> acc, idGen |-> g, layout |-> lay]
    ELSE LET Rest(r) ==
                 IF ~r.ok
                 THEN [ok |-> FALSE, panels |-> <<>>, idGen |-> r.idGen,
                       layout |-> r.layout]
                 ELSE BuildSections(c, secs, i + 1, r.idGen, r.layout,
                                    acc \o r.panels)
         IN  Rest(BuildSection(c, secs[i], g, lay))

\* Build, start to end, on a builder whose counter is g and engine lay.
Build(c, g, lay, a) ==
    LET v == BuildVariables(c, a.dbCfg.Variables)
        Returned(r) ==
            IF ~v.ok \/ ~r.ok THEN Failed
            ELSE Document(a.dbCfg, v.vars, r.panels)
    IN  Returned(BuildSections(c, a.dbCfg.Sections \o a.discoverySections, 1,
                               IDGeneratorReset(g), LayoutEngineReset(lay),
                               <<>>))

----------------------------------------------------------------------------
(* The inputs of the model.                                                *)

\* A panel spec with no key set but its type.
BasePanel ==
    [title |-> "", type |-> "stat", width |-> <<>>, height |-> <<>>,
     x |-> <<>>, y |-> <<>>, datasource |-> "", datasources |-> <<>>,
     metric |-> <<"up">>, metric_type |-> "gauge", query |-> <<>>, targets |-> <<>>]

\* The variable "env": a query variable over "a" with the "All" option.
VarEnv ==
    loadVariableDef([type |-> "query", datasource |-> "a",
                     query |-> <<"label_values(", "up", ",env)">>,
                     include_all |-> TRUE, multi |-> TRUE])

NoAuthored == <<>>

NoPair == <<>>

\* Prometheus "a" is the default datasource, Loki "b" is not; the constant k
\* is "5m" and the selector s is "{x=1}".
CfgTwo ==
    [Datasources |-> [a |-> [Type |-> "prometheus", UID |-> "uid-a", IsDefault |-> TRUE],
                      b |-> [Type |-> "loki", UID |-> "uid-b", IsDefault |-> FALSE]],
     Variables   |-> [env |-> VarEnv],
     Constants   |-> [k |-> <<"5m">>],
     Selectors   |-> [s |-> <<"{", "x=1", "}">>]]

\* Loki "b" is the default datasource, Prometheus "a" is not.
CfgFlagB ==
    [Datasources |-> [a |-> [Type |-> "prometheus", UID |-> "uid-a", IsDefault |-> FALSE],
                      b |-> [Type |-> "loki", UID |-> "uid-b", IsDefault |-> TRUE]],
     Variables   |-> [env |-> VarEnv],
     Constants   |-> [k |-> <<"5m">>],
     Selectors   |-> [s |-> <<"{", "x=1", "}">>]]

\* One datasource, not flagged as the default.
CfgOne ==
    [Datasources |-> [b |-> [Type |-> "loki", UID |-> "uid-b", IsDefault |-> FALSE]],
     Variables   |-> [env |-> VarEnv],
     Constants   |-> [k |-> <<"5m">>],
     Selectors   |-> [s |-> <<"{", "x=1", "}">>]]

\* No datasource at all, and no constant or selector.
CfgEmpty ==
    [Datasources |-> <<>>, Variables |-> <<>>, Constants |-> <<>>,
     Selectors |-> <<>>]

Configs == {CfgTwo, CfgFlagB, CfgOne, CfgEmpty}

\* Explicit target lists: none, one target, one naming a datasource, and two
\* of which the second names a datasource no table has.
TargetLists ==
    {<<>>,
     <<[expr |-> <<"e0">>, datasource |-> <<>>]>>,
     <<[expr |-> <<"e0">>, datasource |-> <<"b">>]>>,
     <<[expr |-> <<"e0">>, datasource |-> <<>>],
       [expr |-> <<"e1", "[", "$", "{", "k", "}", "]">>, datasource |-> <<"zz">>]>>}

\* The panel specs handed to the factory: every type tag with nothing else
\* set; stat and text panels with every combination of a datasource name
\* (none, defined, not defined), a query and a target list; comparison
\* panels over datasource lists of 0 to 3 names, of the metric "up" and of
\* one that holds a reference, "m[${k}]"; and two tags FromConfig has no
\* constructor for.
FactorySpecs ==
    {[BasePanel EXCEPT !.type = t] : t \in PlainTypes \cup {"row", "bogus"}}
    \cup {[BasePanel EXCEPT !.type = t, !.datasource = d, !.query = q, !.targets = tl] :
             t \in {"stat", "text"}, d \in {"", "a", "b", "zz"},
             q \in {<<>>, << <<"up">> >>}, tl \in TargetLists}
    \cup {[BasePanel EXCEPT !.type = "comparison", !.datasources = dl,
                            !.metric_type = mt, !.datasource = d, !.metric = m] :
             dl \in {<<>>, <<"a">>, <<"a", "b">>, <<"a", "zz">>, <<"b", "a", "b">>},
             mt \in {"gauge", "counter"}, d \in {"", "b"},
             m \in {<<"up">>, <<"m", "[", "$", "{", "k", "}", "]">>}}

\* The panel specs dashboards are made of: two auto-placed panels, 3 x 4 and
\* 13 x 7, that share a row with each other but not two of the wide one; one
\* placed by its own x and y; and one whose construction fails.
PStat  == [BasePanel EXCEPT !.title = "stat", !.query = << <<"up">> >>]
PWide  == [BasePanel EXCEPT !.title = "wide", !.type = "timeseries",
                            !.width = <<13>>, !.datasource = "b"]
PFixed == [BasePanel EXCEPT !.title = "fixed", !.x = <<20>>, !.y = <<40>>]
PBogus == [BasePanel EXCEPT !.title = "bogus", !.type = "bogus"]

BuildPanelSpecs == {PStat, PWide, PFixed, PBogus}

SeqsUpTo(S, n) == UNION {[1..k -> S] : k \in 0..n}

\* The strings of q one after the other.
RECURSIVE Flatten(_)
Flatten(q) == IF q = <<>> THEN <<>> ELSE Head(q) \o Flatten(Tail(q))

SectionSpecs ==
    [Title : {"s"}, Collapsed : BOOLEAN, Panels : SeqsUpTo(BuildPanelSpecs, MaxPanels)]

\* The dashboard of the sections q, the first j its own and the rest
\* discovered, declaring the variables vl.
Dashboard(q, j, vl) ==
    [dbCfg |-> [UID |-> "d", Variables |-> vl, Sections |-> SubSeq(q, 1, j)],
     discoverySections |-> SubSeq(q, j + 1, Len(q))]

\* The variable lists of a dashboard of k sections: "env" is defined, and
\* "nope", which the variable table does not define, comes with dashboards of
\* up to one section.
VarLists(k) ==
    IF k <= 1 THEN {<<"env">>, <<"env", "nope">>} ELSE {<<"env">>}

----------------------------------------------------------------------------
(* A builder whose caller builds one dashboard after another.              *)

NoArgs == [dbCfg |-> [UID |-> "", Variables |-> <<>>, Sections |-> <<>>],
           discoverySections |-> <<>>]

NoResult == [err |-> FALSE, doc |-> <<>>]

BuilderIdle ==
    /\ idGen = NewIDGenerator
    /\ layout = NewLayoutEngine
    /\ pc = "idle"
    /\ args = NoArgs
    /\ secIdx = 0
    /\ allPanels = <<>>
    /\ templating = <<>>
    /\ result = NoResult
    /\ entry = "none"

\* No replay under way.
NoReplay == [on |-> FALSE, dirty |-> FALSE, le |-> NewLayoutEngine,
             x |-> 0, y |-> 0]

LayoutIdle ==
    /\ le = NewLayoutEngine
    /\ leRet = [op |-> "none", w |-> 0, h |-> 0, x |-> 0, y |-> 0,
                preX |-> 0, preY |-> 0, preSum |-> 0, preMax |-> 0]
    /\ rowSum = 0
    /\ rowMax = 0
    /\ replay = NoReplay

FactoryIdle ==
    /\ fCall = "none"
    /\ fCfg = BasePanel
    /\ fOut = [ok |-> FALSE, panel |-> NoPanel]
    /\ fLastId = 0

ResolverIdle ==
    /\ rCall = "none"
    /\ rIn = <<>>
    /\ rOut = <<>>
    /\ rAgain = <<>>

CallsIdle ==
    /\ bCall = "none"
    /\ bIn = <<>>
    /\ bOut = <<>>

Init == config = CfgTwo /\ LayoutIdle /\ BuilderIdle /\ FactoryIdle
    /\ ResolverIdle /\ CallsIdle /\ authored = NoAuthored /\ bld = NoPair

\* Build, up to its first loop: reset the counter and the engine, build the
\* variables, and return the error if one is undefined.
BuildStart ==
    /\ pc = "idle"
    /\ \E k \in 0..MaxSections :
       \E j \in 0..k, q \in [1..k -> SectionSpecs], vl \in VarLists(k) :
         LET a == Dashboard(q, j, vl)
             v == BuildVariables(config, a.dbCfg.Variables)
         IN  /\ args' = a
             /\ idGen' = IDGeneratorReset(idGen)
             /\ layout' = LayoutEngineReset(layout)
             /\ templating' = v.vars
             /\ result' = IF v.ok THEN NoResult ELSE Failed
             /\ pc' = IF v.ok THEN "sections" ELSE "done"
    /\ entry' = IF layout.cursorX > 0 THEN "midrow"
                ELSE IF idGen > 0 THEN "used" ELSE "new"
    /\ secIdx' = 1
    /\ allPanels' = <<>>
    /\ UNCHANGED <<config, layoutVars, factoryVars,
                   resolverVars, callVars, bld>>

\* One turn of the loop over sections secs: append the section's panels, or
\* return the error.
SectionStep(secs) ==
    LET Step(r) ==
            /\ idGen' = r.idGen
            /\ layout' = r.layout
            /\ allPanels' = IF r.ok THEN allPanels \o r.panels ELSE <<>>
            /\ secIdx' = secIdx + 1
            /\ result' = IF r.ok THEN result ELSE Failed
            /\ pc' = IF r.ok THEN pc ELSE "done"
            /\ UNCHANGED <<config, args, templating, entry, layoutVars,
                           factoryVars, resolverVars, callVars, bld>>
    IN  Step(BuildSection(config, secs[secIdx], idGen, layout))

BuildOwnSection ==
    /\ pc = "sections"
    /\ secIdx <= Len(args.dbCfg.Sections)
    /\ SectionStep(args.dbCfg.Sections)

\* The loop over the dashboard's own sections is over.
OwnSectionsDone ==
    /\ pc = "sections"
    /\ secIdx > Len(args.dbCfg.Sections)
    /\ pc' = "discovery"
    /\ secIdx' = 1
    /\ UNCHANGED <<config, idGen, layout, args, allPanels, templating, result,
                   entry, layoutVars, factoryVars,
                   resolverVars, callVars, bld>>

BuildDiscoverySection ==
    /\ pc = "discovery"
    /\ secIdx <= Len(args.discoverySections)
    /\ SectionStep(args.discoverySections)

\* Both loops are over: Build returns the document.
BuildReturn ==
    /\ pc = "discovery"
    /\ secIdx > Len(args.discoverySections)
    /\ result' = Document(args.dbCfg, templating, allPanels)
    /\ pc' = "done"
    /\ UNCHANGED <<config, idGen, layout, args, secIdx, allPanels, templating,
                   entry, layoutVars, factoryVars,
                   resolverVars, callVars, bld>>

\* The caller is done with what Build returned and turns to the next dashboard.
Discard ==
    /\ pc = "done"
    /\ pc' = "idle"
    /\ args' = NoArgs
    /\ secIdx' = 0
    /\ allPanels' = <<>>
    /\ templating' = <<>>
    /\ result' = NoResult
    /\ entry' = "none"
    /\ UNCHANGED <<config, idGen, layout, layoutVars, factoryVars,
                   resolverVars, callVars, bld>>

Next ==
    \/ BuildStart
    \/ BuildOwnSection
    \/ OwnSectionsDone
    \/ BuildDiscoverySection
    \/ BuildReturn
    \/ Discard

Spec == Init /\ [][Next]_vars

----------------------------------------------------------------------------
(* A builder whose BuildVariable and BuildNavigationLinks are called by an *)
(* arbitrary caller, over a configuration loaded from variable definitions *)
(* that set any of their keys or none.                                     *)

\* A key of a definition: absent, or with one of vals.
Opt(key, vals) == {<<>>} \cup {key :> v : v \in vals}

\* The definitions of a variable: of every kind or none, with include_all set
\* either way or not at all, on a datasource the table has or lacks or on
\* none, with a query that holds a reference, a value list, a datasource
\* type, a default selection, and refresh and sort.
AuthoredDefs ==
    {t @@ i @@ d @@ q @@ vs @@ dt @@ df @@ rs :
        t  \in Opt("type", {"query", "custom", "datasource", "interval"}),
        i  \in Opt("include_all", BOOLEAN),
        d  \in Opt("datasource", {"b", "zz"}),
        q  \in Opt("query", {<<"q(", "$", "{", "k", "}", ")">>}),
        vs \in Opt("values", {"x,y"}),
        dt \in Opt("ds_type", {"loki"}),
        df \in Opt("default", {[Text |-> "t", Value |-> "v"]}),
        rs \in {<<>>, [refresh |-> 1, sort |-> 3]}}

\* The dashboards of a configuration: "d1" without an icon, "d2" with one.
DashOne == [Title |-> "one", UID |-> "u1", Icon |-> "", Description |-> "first"]

DashTwo == [Title |-> "two", UID |-> "u2", Icon |-> "home", Description |-> ""]

DashboardTables == {[d1 |-> DashOne, d2 |-> DashTwo], [d1 |-> DashOne]}

LinkNames == {"d1", "d2"}

InitCalls ==
    /\ authored \in {[env |-> a] : a \in AuthoredDefs}
    /\ config = [CfgTwo EXCEPT !.Variables =
                     [n \in DOMAIN authored |-> loadVariableDef(authored[n])]]
    /\ LayoutIdle
    /\ BuilderIdle
    /\ FactoryIdle
    /\ ResolverIdle
    /\ CallsIdle
    /\ bld = NoPair

CallBuildVariable ==
    /\ bCall = "none"
    /\ \E name \in {"env", "nope"} :
         /\ bIn' = [name |-> name]
         /\ bOut' = BuildVariable(config, name)
    /\ bCall' = "BuildVariable"
    /\ UNCHANGED <<buildVars, layoutVars, factoryVars, resolverVars, authored,
                   bld>>

CallBuildNavigationLinks ==
    /\ bCall = "none"
    /\ \E dashboards \in DashboardTables, order \in SeqsUpTo(LinkNames, MaxLen) :
         /\ bIn' = [dashboards |-> dashboards, order |-> order]
         /\ bOut' = BuildNavigationLinks(dashboards, order)
    /\ bCall' = "BuildNavigationLinks"
    /\ UNCHANGED <<buildVars, layoutVars, factoryVars, resolverVars, authored,
                   bld>>

\* The caller is done with the result and turns to its next call.
CallsReturn ==
    /\ bCall # "none"
    /\ bCall' = "none"
    /\ bIn' = <<>>
    /\ bOut' = <<>>
    /\ UNCHANGED <<buildVars, layoutVars, factoryVars, resolverVars, authored,
                   bld>>

NextCalls == CallBuildVariable \/ CallBuildNavigationLinks \/ CallsReturn

SpecCalls == InitCalls /\ [][NextCalls]_vars

----------------------------------------------------------------------------
(* Two request handlers at work at the same time.  Each makes a generator, *)
(* a factory, an engine and a builder of its own and builds dashboards     *)
(* with them; the configuration is the one thing they share, and they only *)
(* read it.  A step of the model is a step of one handler's Build.         *)

Handlers == {1, 2}

\* A handler sharing the first handler's generator and engine.
instanceOf_Shared(b) == 1

\* The generator and engine the builder of handler b works with: its own.
instanceOf(b) == b

NewRun ==
    [pc |-> "idle", args |-> NoArgs, secIdx |-> 0, allPanels |-> <<>>,
     templating |-> <<>>, result |-> NoResult]

OpenOf(Panels) == [Title |-> "s", Collapsed |-> FALSE, Panels |-> Panels]

ClosedOf(Panels) == [Title |-> "s", Collapsed |-> TRUE, Panels |-> Panels]

\* The dashboards the two handlers build: an empty one, one of an open
\* section, one of a collapsed and an open section, one with a discovered
\* section, and one whose second section fails.
PairDashboards ==
    {Dashboard(<<>>, 0, <<"env">>),
     Dashboard(<<OpenOf(<<PStat, PWide>>)>>, 1, <<"env">>),
     Dashboard(<<ClosedOf(<<PWide>>), OpenOf(<<PStat>>)>>, 2, <<"env">>),
     Dashboard(<<OpenOf(<<PWide, PWide>>), OpenOf(<<PStat>>)>>, 1, <<"env">>),
     Dashboard(<<OpenOf(<<PStat>>), OpenOf(<<PBogus>>)>>, 2, <<"env">>)}

InitPair ==
    /\ config = CfgTwo
    /\ LayoutIdle
    /\ BuilderIdle
    /\ FactoryIdle
    /\ ResolverIdle
    /\ CallsIdle
    /\ authored = NoAuthored
    /\ bld = [inst |-> [i \in Handlers |->
                           [idGen |-> NewIDGenerator, layout |-> NewLayoutEngine]],
              run  |-> [b \in Handlers |-> NewRun]]

\* The sections the two loops of Build go through, one loop after the other.
PairSecs(b) ==
    bld.run[b].args.dbCfg.Sections \o bld.run[b].args.discoverySections

\* Build of handler b, up to its first loop.
PairStart(b) ==
    /\ bld.run[b].pc = "idle"
    /\ \E a \in PairDashboards :
         LET Started(v) ==
                 bld' = [inst |-> [bld.inst EXCEPT ![instanceOf(b)] =
                                     [idGen  |-> IDGeneratorReset(@.idGen),
                                      layout |-> LayoutEngineReset(@.layout)]],
                         run  |-> [bld.run EXCEPT ![b] =
                                     [pc |-> IF v.ok THEN "sections" ELSE "done",
                                      args |-> a, secIdx |-> 1,
                                      allPanels |-> <<>>,
                                      templating |-> v.vars,
                                      result |-> IF v.ok THEN NoResult
                                                 ELSE Failed]]]
         IN  Started(BuildVariables(config, a.dbCfg.Variables))
    /\ UNCHANGED <<buildVars, layoutVars, factoryVars, resolverVars, callVars>>

\* One turn of the loops of handler b's Build over the sections.
PairSection(b) ==
    /\ bld.run[b].pc = "sections"
    /\ bld.run[b].secIdx <= Len(PairSecs(b))
    /\ LET Step(r) ==
               bld' = [inst |-> [bld.inst EXCEPT ![instanceOf(b)] =
                                   [idGen |-> r.idGen, layout |-> r.layout]],
                       run  |-> [bld.run EXCEPT ![b] =
                                   [@ EXCEPT
                                      !.allPanels = IF r.ok THEN @ \o r.panels
                                                    ELSE <<>>,
                                      !.secIdx = @ + 1,
                                      !.result = IF r.ok THEN @ ELSE Failed,
                                      !.pc = IF r.ok THEN @ ELSE "done"]]]
       IN  Step(BuildSection(config, PairSecs(b)[bld.run[b].secIdx],
                             bld.inst[instanceOf(b)].idGen,
                             bld.inst[instanceOf(b)].layout))
    /\ UNCHANGED <<buildVars, layoutVars, factoryVars, resolverVars, callVars>>

\* The loops are over: handler b's Build returns the document.
PairReturn(b) ==
    /\ bld.run[b].pc = "sections"
    /\ bld.run[b].secIdx > Len(PairSecs(b))
    /\ bld' = [bld EXCEPT !.run[b] =
                  [@ EXCEPT !.pc = "done",
                            !.result = Document(bld.run[b].args.dbCfg,
                                                bld.run[b].templating,
                                                bld.run[b].allPanels)]]
    /\ UNCHANGED <<buildVars, layoutVars, factoryVars, resolverVars, callVars>>

\* Handler b is done with the document and turns to its next dashboard.
PairDiscard(b) ==
    /\ bld.run[b].pc = "done"
    /\ bld' = [bld EXCEPT !.run[b] = NewRun]
    /\ UNCHANGED <<buildVars, layoutVars, factoryVars, resolverVars, callVars>>

NextPair ==
    \E b \in Handlers :
        PairStart(b) \/ PairSection(b) \/ PairReturn(b) \/ PairDiscard(b)

SpecPair == InitPair /\ [][NextPair]_vars

----------------------------------------------------------------------------
(* A builder whose BuildSection is called on sections of up to MaxLen      *)
(* panels, with its engine new or in the middle of a row.                  *)

\* Panel specs with only an x, and with only a y.
PXOnly == [BasePanel EXCEPT !.title = "xonly", !.x = <<7>>]

PYOnly == [BasePanel EXCEPT !.title = "yonly", !.type = "bargauge", !.y = <<9>>]

SectionPanelSpecs == {PStat, PWide, PFixed, PXOnly, PYOnly}

\* The engine of the builder when BuildSection is called: new, or with a
\* panel of 5 x 3 in the row at y = 2.
MidRow == [cursorX |-> 5, cursorY |-> 2, rowHeight |-> 3]

InitSection ==
    /\ config = CfgTwo
    /\ LayoutIdle
    /\ BuilderIdle
    /\ FactoryIdle
    /\ ResolverIdle
    /\ CallsIdle
    /\ authored = NoAuthored
    /\ bld = NoPair

CallBuildSection ==
    /\ bCall = "none"
    /\ \E Panels \in SeqsUpTo(SectionPanelSpecs, MaxLen), collapsed \in BOOLEAN,
          lay \in {NewLayoutEngine, MidRow} :
         /\ bIn' = [section |-> [Title |-> "s", Collapsed |-> collapsed,
                                 Panels |-> Panels],
                    lay |-> lay]
         /\ bOut' = BuildSection(config,
                                 [Title |-> "s", Collapsed |-> collapsed,
                                  Panels |-> Panels],
                                 NewIDGenerator, lay)
    /\ bCall' = "BuildSection"
    /\ UNCHANGED <<buildVars, layoutVars, factoryVars, resolverVars, authored,
                   bld>>

NextSection == CallBuildSection \/ CallsReturn

SpecSection == InitSection /\ [][NextSection]_vars

----------------------------------------------------------------------------
(* A factory and its id generator driven by an arbitrary caller.           *)

InitFactory == config \in Configs /\ LayoutIdle /\ BuilderIdle /\ FactoryIdle
    /\ ResolverIdle /\ CallsIdle /\ authored = NoAuthored /\ bld = NoPair

FactoryFromConfig ==
    /\ idGen < MaxIds
    /\ \E cfg \in FactorySpecs, pos \in {<<0, 0>>, <<12, 5>>} :
         LET r == FromConfig(config, cfg, pos[1], pos[2], idGen)
         IN  /\ fCall' = "FromConfig"
             /\ fCfg' = cfg
             /\ fOut' = [ok |-> r.ok, panel |-> r.panel]
             /\ idGen' = r.idGen
    /\ fLastId' = IF fOut.ok THEN fOut.panel.id ELSE fLastId
    /\ UNCHANGED <<config, layout, pc, args, secIdx, allPanels, templating,
                   result, entry, layoutVars, resolverVars, callVars, bld>>

FactoryRow ==
    /\ idGen < MaxIds
    /\ \E collapsed \in BOOLEAN :
         LET r == Row("s", 0, collapsed, <<>>, idGen)
         IN  /\ fCall' = "Row"
             /\ fCfg' = BasePanel
             /\ fOut' = [ok |-> TRUE, panel |-> r.panel]
             /\ idGen' = r.idGen
    /\ fLastId' = IF fOut.ok THEN fOut.panel.id ELSE fLastId
    /\ UNCHANGED <<config, layout, pc, args, secIdx, allPanels, templating,
                   result, entry, layoutVars, resolverVars, callVars, bld>>

FactoryReset ==
    /\ idGen' = IDGeneratorReset(idGen)
    /\ fCall' = "Reset"
    /\ fCfg' = BasePanel
    /\ fOut' = [ok |-> FALSE, panel |-> NoPanel]
    /\ fLastId' = 0
    /\ UNCHANGED <<config, layout, pc, args, secIdx, allPanels, templating,
                   result, entry, layoutVars, resolverVars, callVars, bld>>

NextFactory == FactoryFromConfig \/ FactoryRow \/ FactoryReset

SpecFactory == InitFactory /\ [][NextFactory]_vars

----------------------------------------------------------------------------
(* A Config whose resolvers are called with arbitrary arguments.           *)

\* Constant k is "5m", e is empty and c holds a reference, "${k}"; selector
\* s is "{x=1}", and e and k are selectors too; the palette has green and
\* red; the threshold set health has three steps.
CfgRefs ==
    [Constants  |-> [k |-> <<"5m">>, e |-> <<>>, c |-> <<"$", "{", "k", "}">>],
     Selectors  |-> [s |-> <<"{", "x=1", "}">>, e |-> <<"sel">>, k |-> <<"no">>],
     palette    |-> [green |-> <<"#73BF69">>, red |-> <<"#F2495C">>],
     Thresholds |-> [health |-> <<[Color |-> <<"$", "red">>, Value |-> <<>>],
                                  [Color |-> <<"$", "green">>, Value |-> <<1>>],
                                  [Color |-> <<"#FF0000">>, Value |-> <<50>>]>>]]

\* Every table empty.
CfgBare ==
    [Constants |-> <<>>, Selectors |-> <<>>, palette |-> <<>>,
     Thresholds |-> <<>>]

ResolverConfigs == {CfgRefs, CfgBare}

\* What reference strings are made of: references to each kind of name,
\* things that fall short of a reference, and plain text.
RefPieces ==
    {<<"$", "{", "k", "}">>, <<"$", "{", "s", "}">>, <<"$", "{", "e", "}">>,
     <<"$", "{", "c", "}">>, <<"$", "{", "u", "}">>, <<"$", "{", "}">>,
     <<"$", "{", "k", "-", "}">>, <<"$", "k">>, <<"$">>, <<"{">>, <<"}">>,
     <<"k">>, <<"rate(">>}

RefStrings == {Flatten(q) : q \in SeqsUpTo(RefPieces, MaxLen)}

ColorAtoms == {"$", "green", "missing", "#ABCDEF"}

ColorStrings == SeqsUpTo(ColorAtoms, MaxLen)

\* An absent value is null, <<>>; an absent color is <<>>.
ThresholdItems ==
    [color : {<<>>, << <<"$", "red">> >>, << <<"$", "missing">> >>,
              << <<"#FF0000">> >>, << <<"$", "$", "green">> >>},
     value : {<<>>, <<1>>}]

ThresholdValues ==
    {[kind |-> "string", str |-> str] :
        str \in {<<"$", "health">>, <<"$", "nope">>, <<"health">>, <<>>}}
    \cup {[kind |-> "list", items |-> items] :
             items \in SeqsUpTo(ThresholdItems, MaxLen)}

InitResolver ==
    /\ config \in ResolverConfigs
    /\ LayoutIdle
    /\ BuilderIdle
    /\ FactoryIdle
    /\ ResolverIdle
    /\ CallsIdle
    /\ authored = NoAuthored
    /\ bld = NoPair

CallResolveRef ==
    /\ rCall = "none"
    /\ \E value \in RefStrings :
         /\ rIn' = value
         /\ rOut' = ResolveRef(config, value)
         /\ rAgain' = ResolveRef(config, ResolveRef(config, value))
    /\ rCall' = "ResolveRef"
    /\ UNCHANGED <<buildVars, layoutVars, factoryVars, callVars, bld>>

CallResolveColor ==
    /\ rCall = "none"
    /\ \E value \in ColorStrings :
         /\ rIn' = value
         /\ rOut' = ResolveColor(config, value)
         /\ rAgain' = ResolveColor(config, ResolveColor(config, value))
    /\ rCall' = "ResolveColor"
    /\ UNCHANGED <<buildVars, layoutVars, factoryVars, callVars, bld>>

CallResolveThresholds ==
    /\ rCall = "none"
    /\ \E value \in ThresholdValues :
         /\ rIn' = value
         /\ rOut' = ResolveThresholds(config, value)
    /\ rAgain' = <<>>
    /\ rCall' = "ResolveThresholds"
    /\ UNCHANGED <<buildVars, layoutVars, factoryVars, callVars, bld>>

\* The caller is done with the result and turns to its next call.
ResolverReturn ==
    /\ rCall # "none"
    /\ rCall' = "none"
    /\ rIn' = <<>>
    /\ rOut' = <<>>
    /\ rAgain' = <<>>
    /\ UNCHANGED <<buildVars, layoutVars, factoryVars, callVars, bld>>

NextResolver ==
    \/ CallResolveRef
    \/ CallResolveColor
    \/ CallResolveThresholds
    \/ ResolverReturn

SpecResolver == InitResolver /\ [][NextResolver]_vars

----------------------------------------------------------------------------
(* A layout engine driven by an arbitrary caller.                          *)

\* What a call on le leaves in leRet.
Call(op, w, h, x, y) ==
    [op |-> op, w |-> w, h |-> h, x |-> x, y |-> y,
     preX |-> le.cursorX, preY |-> le.cursorY,
     preSum |-> rowSum, preMax |-> rowMax]

InitLayout == config = CfgTwo /\ LayoutIdle /\ BuilderIdle /\ FactoryIdle
    /\ ResolverIdle /\ CallsIdle /\ authored = NoAuthored /\ bld = NoPair

\* rowSum and rowMax follow the panels by the rule of the grid alone: a panel
\* that does not fit beside the ones before it starts the next row.  While a
\* replay is on, the call is made on the replay's engine as well.
LePlace ==
    /\ le.cursorY < MaxY
    /\ \E w \in 0..MaxWidth, h \in 1..MaxHeight :
         LET r == Place(le, w, h)
             wraps == rowSum + w > GridWidth
         IN  /\ le' = r.le
             /\ leRet' = Call("Place", w, h, r.x, r.y)
             /\ rowSum' = IF wraps THEN w ELSE rowSum + w
             /\ rowMax' = IF wraps THEN h ELSE Max(rowMax, h)
             /\ replay' = IF replay.on
                           THEN LET t == Place(replay.le, w, h)
                                IN  [replay EXCEPT !.le = t.le, !.x = t.x,
                                                   !.y = t.y]
                           ELSE replay
    /\ UNCHANGED <<buildVars, factoryVars, resolverVars, callVars, bld>>

LeAddRow ==
    /\ le.cursorY < MaxY
    /\ LET r == AddRow(le)
       IN  /\ le' = r.le
           /\ leRet' = Call("AddRow", 0, 0, 0, r.y)
           /\ rowSum' = 0
           /\ rowMax' = 0
           /\ replay' = NoReplay
    /\ UNCHANGED <<buildVars, factoryVars, resolverVars, callVars, bld>>

\* A row that holds no width yet is not left by FinishSection: the heights of
\* the zero-width panels placed in it stay in the row.
LeFinishSection ==
    /\ le' = FinishSection(le)
    /\ leRet' = Call("FinishSection", 0, 0, 0, 0)
    /\ rowSum' = 0
    /\ rowMax' = IF rowSum > 0 THEN 0 ELSE rowMax
    /\ replay' = NoReplay
    /\ UNCHANGED <<buildVars, factoryVars, resolverVars, callVars, bld>>

\* Reset starts a replay beside a newly constructed engine; dirty tells
\* whether the engine reset had been used.
LeReset ==
    /\ le' = LayoutEngineReset(le)
    /\ leRet' = Call("Reset", 0, 0, 0, 0)
    /\ rowSum' = 0
    /\ rowMax' = 0
    /\ replay' = [on |-> TRUE, dirty |-> le # NewLayoutEngine,
                  le |-> NewLayoutEngine, x |-> 0, y |-> 0]
    /\ UNCHANGED <<buildVars, factoryVars, resolverVars, callVars, bld>>

NextLayout == LePlace \/ LeAddRow \/ LeFinishSection \/ LeReset

SpecLayout == InitLayout /\ [][NextLayout]_vars

----------------------------------------------------------------------------
(* Claims about the layout engine (SpecLayout).                            *)

\* C3: every position Place(w,h) returns satisfies x + w <= GridWidth, so no
\* placed panel extends past the right edge of the grid.
C3_NoPanelPastRightEdge ==
    leRet.op = "Place" => leRet.x + leRet.w <= GridWidth

\* C10: Place(w,h) wraps exactly when cursorX + w > 24, so a panel as wide as
\* what is left of the row stays on it; without a wrap it returns
\* (cursorX, cursorY), with a wrap (0, cursorY + the tallest height placed in
\* the row being left); and within a row the x returned is the sum of the
\* widths placed earlier in that row.
C10_PlaceWrapsExactlyOnOverflow ==
    leRet.op = "Place" =>
        LET wrap == leRet.preX + leRet.w > GridWidth
        IN  /\ wrap <=> (leRet.preSum + leRet.w > GridWidth)
            /\ wrap  => /\ leRet.x = 0
                        /\ leRet.y = leRet.preY + leRet.preMax
            /\ ~wrap => /\ leRet.x = leRet.preX
                        /\ leRet.y = leRet.preY
                        /\ leRet.x = leRet.preSum
            /\ le.cursorX = rowSum

\* C10 witness: a Place that found the row exactly full (the panel before it
\* fitted the remaining width and stayed) and wrapped below a row 2 high.
C10_Witness ==
    /\ leRet.op = "Place"
    /\ leRet.preX = GridWidth
    /\ leRet.preMax = 2
    /\ leRet.x = 0
    /\ leRet.y = leRet.preY + 2

\* The next Place after an AddRow that returned y, whatever its size,
\* returns (0, y + 1).
NextPlaceBelowRow ==
    \A w \in 0..MaxWidth, h \in 1..MaxHeight :
        /\ Place(le, w, h).x = 0
        /\ Place(le, w, h).y = leRet.y + 1

C12_ResetReplaysLikeNew ==
    /\ leRet.op = "Reset" => le = NewLayoutEngine
    /\ (replay.on /\ leRet.op = "Place") =>
           /\ leRet.x = replay.x
           /\ leRet.y = replay.y
           /\ le = replay.le

\* C12 witness: an engine that had been used was reset, and a Place of the
\* replay found panels in the row and wrapped below it.
C12_Witness ==
    /\ replay.on
    /\ replay.dirty
    /\ leRet.op = "Place"
    /\ leRet.preX > 0
    /\ leRet.x = 0
    /\ leRet.y = 2

----------------------------------------------------------------------------
(* Claims about the dashboard builder (Spec).                              *)

\* Build has returned a document.
Returned == pc = "done" /\ ~result.err

\* The top-level panels of the returned document.
Top == result.doc[1].panels

\* The sections Build was given, its own first.
AllSections == args.dbCfg.Sections \o args.discoverySections

\* The panels nested in a top-level panel.
Nested(p) == IF p.type = "row" THEN p.panels ELSE <<>>

\* The panels under top-level positions i.., in the order they were
\* constructed: the children of a collapsed row before the row.
RECURSIVE Constructed(_, _)
Constructed(top, i) ==
    IF i > Len(top) THEN <<>>
    ELSE Nested(top[i]) \o <<top[i]>> \o Constructed(top, i + 1)

\* Where in the top-level array the row of section k stands, when every
\* section before it contributed what it should.
RECURSIVE RowIndex(_, _)
RowIndex(secs, k) ==
    IF k = 1 THEN 1
    ELSE RowIndex(secs, k - 1)
         + (IF secs[k - 1].Collapsed THEN 1 ELSE 1 + Len(secs[k - 1].Panels))

AutoPlaced(pcfg) == ~(pcfg.x # <<>> /\ pcfg.y # <<>>)

\* C1: in a returned document the ids of all panels, nested ones included,
\* are pairwise distinct positive integers, they strictly increase along the
\* top-level array, and the first panel constructed has id 1, whatever the
\* builder built before.
C1_IdsUniqueIncreasingFromOne ==
    Returned =>
        LET all == Constructed(Top, 1)
        IN  /\ \A i \in 1..Len(all) : all[i].id \in Nat /\ all[i].id > 0
            /\ \A i, j \in 1..Len(all) : i # j => all[i].id # all[j].id
            /\ \A i, j \in 1..Len(Top) : i < j => Top[i].id < Top[j].id
            /\ all # <<>> => all[1].id = 1

\* C1 witness: a document with a collapsed row holding children and at least
\* three top-level panels, returned by a builder that had built before.
C1_Witness ==
    /\ Returned
    /\ entry # "new"
    /\ Len(Top) >= 3
    /\ \E i \in 1..Len(Top) : Top[i].type = "row" /\ Len(Top[i].panels) >= 1

\* C2: whatever the builder built before, failed builds included, what Build
\* returns for its arguments is what a newly constructed builder returns for
\* them.
C2_BuildIsHistoryFree ==
    pc = "done" => result = Build(config, NewIDGenerator, NewLayoutEngine, args)

\* C2 witness: a document of several panels returned by a builder whose
\* previous Build failed part-way through a row of an open section.
C2_Witness ==
    /\ Returned
    /\ entry = "midrow"
    /\ Len(Top) >= 3

\* A panel spec of the arguments whose construction fails, or a declared
\* variable the table does not define.
SomethingFails ==
    \/ \E i \in 1..Len(args.dbCfg.Variables) :
          ~BuildVariable(config, args.dbCfg.Variables[i]).ok
    \/ \E k \in 1..Len(AllSections) : \E i \in 1..Len(AllSections[k].Panels) :
          ~FromConfig(config, AllSections[k].Panels[i], 0, 0, 0).ok

\* The number of panel specs and sections of the arguments.
RECURSIVE SpecCount(_, _)
SpecCount(secs, k) ==
    IF k > Len(secs) THEN 0
    ELSE 1 + Len(secs[k].Panels) + SpecCount(secs, k + 1)

\* C4: if the construction of any panel or of any declared variable fails,
\* Build returns an error and no document; a document it does return misses
\* no panel and no variable.
C4_FailureYieldsNoDocument ==
    pc = "done" =>
        /\ SomethingFails => result.err /\ result.doc = <<>>
        /\ ~result.err =>
              /\ Len(result.doc) = 1
              /\ Len(Constructed(Top, 1)) = SpecCount(AllSections, 1)
              /\ Len(result.doc[1].templating) = Len(args.dbCfg.Variables)

\* C4 witness: Build returned an error for a dashboard whose own section is
\* sound and whose collapsed discovery section nests, after a sound panel, one
\* whose construction fails.
C4_Witness ==
    /\ pc = "done"
    /\ result = Failed
    /\ Len(args.dbCfg.Sections) = 1
    /\ args.dbCfg.Sections[1].Panels = <<PStat>>
    /\ Len(args.discoverySections) = 1
    /\ args.discoverySections[1].Collapsed
    /\ args.discoverySections[1].Panels = <<PWide, PBogus>>

\* What section k should contribute to the top-level array: its row, and
\* after it the titles of its panels when it is open; the titles nested in
\* the row when it is collapsed.
Titles(Panels) == [i \in 1..Len(Panels) |-> Panels[i].title]

RECURSIVE ExpectedTop(_, _)
ExpectedTop(secs, k) ==
    IF k > Len(secs) THEN <<>>
    ELSE (IF secs[k].Collapsed
          THEN <<[type |-> "row", collapsed |-> TRUE,
                  nested |-> Titles(secs[k].Panels)]>>
          ELSE <<[type |-> "row", collapsed |-> FALSE, nested |-> <<>>]>>
               \o [i \in 1..Len(secs[k].Panels) |->
                     [type |-> secs[k].Panels[i].type, collapsed |-> FALSE,
                      nested |-> <<secs[k].Panels[i].title>>]])
         \o ExpectedTop(secs, k + 1)

\* What the top-level array holds, in the same terms.
ActualTop ==
    [i \in 1..Len(Top) |->
        IF Top[i].type = "row"
        THEN [type |-> "row", collapsed |-> Top[i].collapsed,
              nested |-> Titles(Top[i].panels)]
        ELSE [type |-> Top[i].type, collapsed |-> FALSE,
              nested |-> <<Top[i].title>>]]

RECURSIVE ExpectedLen(_, _)
ExpectedLen(secs, k) ==
    IF k > Len(secs) THEN 0
    ELSE (IF secs[k].Collapsed THEN 1 ELSE 1 + Len(secs[k].Panels))
         + ExpectedLen(secs, k + 1)

\* C5: the top-level panels follow the sections in order, own sections before
\* discovery sections; an open section of n panels gives its row and then its
\* n panels in configured order, a collapsed one a single row with
\* collapsed = true nesting its n panels; so the length is the sum of 1 + n
\* over the open sections plus the number of collapsed ones.
C5_TopLevelFollowsSections ==
    Returned =>
        /\ ActualTop = ExpectedTop(AllSections, 1)
        /\ Len(Top) = ExpectedLen(AllSections, 1)

\* C5 witness: an open own section of two panels and a collapsed discovery
\* section of one give row, panel, panel, row, the last row collapsed with one
\* nested panel.
C5_Witness ==
    /\ Returned
    /\ Len(args.dbCfg.Sections) = 1
    /\ Len(args.discoverySections) = 1
    /\ Len(Top) = 4
    /\ Top[1].type = "row" /\ ~Top[1].collapsed
    /\ Top[2].type # "row" /\ Top[3].type # "row"
    /\ Top[4].type = "row" /\ Top[4].collapsed /\ Len(Top[4].panels) = 1

\* The first spec of a section that is placed by the engine, 0 if none is.
FirstAuto(Panels) ==
    IF \E i \in 1..Len(Panels) : AutoPlaced(Panels[i])
    THEN CHOOSE i \in 1..Len(Panels) :
            /\ AutoPlaced(Panels[i])
            /\ \A j \in 1..(i - 1) : ~AutoPlaced(Panels[j])
    ELSE 0

\* C6: no child of a collapsed section is in the top-level array; all of them
\* are in the row's own panels, in configured order; and the first child that
\* is auto-placed is at (0,0), wherever the dashboard's cursor is.
C6_CollapsedChildrenNestedFromOrigin ==
    Returned =>
        /\ Len(Top) = ExpectedLen(AllSections, 1)
        /\ \A k \in 1..Len(AllSections) :
              AllSections[k].Collapsed =>
                 LET row == Top[RowIndex(AllSections, k)]
                     f   == FirstAuto(AllSections[k].Panels)
                 IN  /\ row.type = "row" /\ row.collapsed
                     /\ Titles(row.panels) = Titles(AllSections[k].Panels)
                     /\ \A i \in 1..Len(row.panels), j \in 1..Len(Top) :
                           Top[j].id # row.panels[i].id
                     /\ f > 0 => /\ row.panels[f].gridPos.x = 0
                                 /\ row.panels[f].gridPos.y = 0

\* C6 witness: a collapsed section after an open one whose panels moved the
\* dashboard's cursor down; its first child is placed by its own x and y and
\* its second, the first auto-placed one, is at the origin.
C6_Witness ==
    /\ Returned
    /\ Len(AllSections) = 2
    /\ AllSections[1] = [Title |-> "s", Collapsed |-> FALSE, Panels |-> <<PStat, PWide>>]
    /\ AllSections[2] = [Title |-> "s", Collapsed |-> TRUE, Panels |-> <<PFixed, PWide>>]
    /\ Top[4].gridPos.y = 8
    /\ Top[4].panels[1].gridPos.y = 40
    /\ Top[4].panels[2].gridPos = [h |-> 7, w |-> 13, x |-> 0, y |-> 0]

\* C7: every row panel has gridPos x = 0, w = 24, h = 1, and the row of an
\* open section stands immediately before the section's panels: row, then its
\* panels in order, with no panel of another section in between.
C7_RowsFullWidthBeforeTheirPanels ==
    Returned =>
        /\ \A i \in 1..Len(Top) :
              Top[i].type = "row" =>
                 /\ Top[i].gridPos.x = 0
                 /\ Top[i].gridPos.w = 24
                 /\ Top[i].gridPos.h = 1
        /\ Len(Top) = ExpectedLen(AllSections, 1)
        /\ \A k \in 1..Len(AllSections) :
              LET r == RowIndex(AllSections, k)
              IN  /\ Top[r].type = "row"
                  /\ Top[r].title = AllSections[k].Title
                  /\ ~AllSections[k].Collapsed =>
                        \A i \in 1..Len(AllSections[k].Panels) :
                           /\ Top[r + i].type # "row"
                           /\ Top[r + i].title = AllSections[k].Panels[i].title

\* C7 witness: two open sections of two panels each: row, panel, panel, row,
\* panel, panel.
C7_Witness ==
    /\ Returned
    /\ Len(AllSections) = 2
    /\ \A k \in 1..2 : ~AllSections[k].Collapsed /\ Len(AllSections[k].Panels) = 2
    /\ Len(Top) = 6
    /\ Top[1].type = "row" /\ Top[4].type = "row"
    /\ Top[4].gridPos.y > Top[1].gridPos.y

\* The loop under way has just finished a section, and it was an open one.
LoopSecs == IF pc = "sections" THEN args.dbCfg.Sections ELSE args.discoverySections

FinishedOpen ==
    /\ pc \in {"sections", "discovery"}
    /\ secIdx > 1
    /\ ~LoopSecs[secIdx - 1].Collapsed

\* The specs of that section, and what it emitted: its row, then its panels.
FinishedSpecs == LoopSecs[secIdx - 1].Panels

Emitted(i) == allPanels[Len(allPanels) - Len(FinishedSpecs) + i]

Below(p) == p.gridPos.y + p.gridPos.h

----------------------------------------------------------------------------
(* Claims about the panel factory (SpecFactory).                           *)

\* The factory has just returned a data panel.
MadeDataPanel == fCall = "FromConfig" /\ fOut.ok

IsRef(d) == DOMAIN d = {"type", "uid"}

\* The datasource the spec's name resolves to: the table's entry for it, or
\* the default when the spec names none or one the table lacks.
NamedOrDefault ==
    IF fCfg.datasource \in DOMAIN config.Datasources
    THEN [type |-> config.Datasources[fCfg.datasource].Type,
          uid  |-> config.Datasources[fCfg.datasource].UID]
    ELSE GetDefaultDatasource(config)

TargetsHaveRefs ==
    "targets" \in DOMAIN fOut.panel =>
        \A i \in 1..Len(fOut.panel.targets) : IsRef(fOut.panel.targets[i].datasource)

\* C9 as claimed: every data panel the factory produces carries a datasource
\* {type, uid}, that of the datasource the spec names when the table has it
\* and that of the default otherwise, and so does every target.
C9_DatasourceNamedOrDefault ==
    MadeDataPanel =>
        /\ "datasource" \in DOMAIN fOut.panel
        /\ IsRef(fOut.panel.datasource)
        /\ fOut.panel.datasource = NamedOrDefault
        /\ TargetsHaveRefs

\* C9 amended: every data panel the factory produces carries a datasource
\* {type, uid}, and so does every target; for every panel but a comparison
\* panel it is that of the datasource the spec names when the table has it
\* and that of the default otherwise, and for a comparison panel it is the
\* mixed marker {type: "datasource", uid: "-- Mixed --"}.
C9_DatasourceNamedOrDefaultOrMixed ==
    MadeDataPanel =>
        /\ "datasource" \in DOMAIN fOut.panel
        /\ IsRef(fOut.panel.datasource)
        /\ fOut.panel.datasource =
              IF fCfg.type = "comparison"
              THEN [type |-> "datasource", uid |-> "-- Mixed --"]
              ELSE NamedOrDefault
        /\ TargetsHaveRefs

\* C9 witness: a stat panel naming a datasource the table lacks got the
\* default, Loki "b", and its two targets carry references too.
C9_Witness ==
    /\ MadeDataPanel
    /\ config = CfgFlagB
    /\ fCfg.type = "stat"
    /\ fCfg.datasource = "zz"
    /\ fOut.panel.datasource = [type |-> "loki", uid |-> "uid-b"]
    /\ Len(fOut.panel.targets) = 2

\* The factory has just constructed a panel, by FromConfig or by Row.
Constructed1 == fCall \in {"FromConfig", "Row"} /\ fOut.ok

\* C13: over constructions sharing one IDGenerator, of any kind including Row
\* and comparison, a successful construction takes exactly one id, the id of
\* the panel constructed before it plus 1, and 1 when none was constructed
\* since the generator was made or reset; a failed construction (unknown type
\* tag, comparison with fewer than 2 datasources) takes no id.
C13_OneIdPerConstruction ==
    /\ Constructed1 =>
           /\ fOut.panel.id = fLastId + 1
           /\ idGen = fOut.panel.id
    /\ (fCall = "FromConfig" /\ ~fOut.ok) => idGen = fLastId
    /\ fCall = "Reset" => idGen = 0 /\ fLastId = 0

\* C13 witness: a comparison panel got id 3 after a panel with id 2, with a
\* failed construction or none between them.
C13_Witness ==
    /\ Constructed1
    /\ fCfg.type = "comparison"
    /\ fLastId = 2
    /\ fOut.panel.id = 3

\* The 14 type tags and the default width and height documented for each.
KnownTags == PlainTypes \cup {"row", "comparison"}

DocumentedSize(tag) ==
    CASE tag \in {"stat", "gauge"}                      -> <<3, 4>>
      [] tag \in {"timeseries", "histogram"}            -> <<12, 7>>
      [] tag = "bargauge"                               -> <<6, 5>>
      [] tag \in {"heatmap", "comparison"}              -> <<12, 8>>
      [] tag \in {"table", "logs"}                      -> <<24, 8>>
      [] tag = "piechart"                               -> <<6, 6>>
      [] tag \in {"state-timeline", "status-history"}   -> <<12, 5>>
      [] tag = "text"                                   -> <<24, 3>>
      [] tag = "row"                                    -> <<24, 1>>

\* The spec of the last FromConfig has the tag and sets no width or height.
FromBareSpec(tags) ==
    /\ fCall = "FromConfig"
    /\ fCfg.type \in tags
    /\ fCfg.width = <<>>
    /\ fCfg.height = <<>>

\* The panel returned has the type, a positive id and the size documented
\* for the tag.
MadeAs(type, tag) ==
    /\ fOut.ok
    /\ fOut.panel.type = type
    /\ fOut.panel.id > 0
    /\ fOut.panel.gridPos.w = DocumentedSize(tag)[1]
    /\ fOut.panel.gridPos.h = DocumentedSize(tag)[2]

IsRefAt(str, i) ==
    /\ i + 3 <= Len(str)
    /\ str[i] = "$"
    /\ str[i + 1] = "{"
    /\ \E e \in (i + 3)..Len(str) :
          str[e] = "}" /\ \A j \in (i + 2)..(e - 1) : str[j] \in WordAtoms

RefEndAt(str, i) ==
    CHOOSE e \in (i + 3)..Len(str) :
        str[e] = "}" /\ \A j \in (i + 2)..(e - 1) : str[j] \in WordAtoms

InsideRef(str, i) ==
    \E p \in 1..(i - 1) : IsRefAt(str, p) /\ i <= RefEndAt(str, p)

\* str with every reference replaced by Entry(name, token) and all else kept.
Substituted(str, Entry(_, _)) ==
    Flatten([i \in 1..Len(str) |->
                IF IsRefAt(str, i)
                THEN Entry(SubSeq(str, i + 2, RefEndAt(str, i) - 1),
                           SubSeq(str, i, RefEndAt(str, i)))
                ELSE IF InsideRef(str, i) THEN <<>> ELSE <<str[i]>>])

\* The entry for a name when a table defines it with a non-empty value, the
\* constants first, and the token otherwise.
NonEmptyEntry(name, token) ==
    IF Len(name) = 1 /\ name[1] \in DOMAIN config.Constants
       /\ config.Constants[name[1]] # <<>>
    THEN config.Constants[name[1]]
    ELSE IF Len(name) = 1 /\ name[1] \in DOMAIN config.Selectors
            /\ config.Selectors[name[1]] # <<>>
    THEN config.Selectors[name[1]]
    ELSE token

\* The last call was FromConfig on a comparison spec.
FromComparison == fCall = "FromConfig" /\ fCfg.type = "comparison"

AllDefined ==
    \A i \in 1..Len(fCfg.datasources) :
        fCfg.datasources[i] \in DOMAIN config.Datasources

\* The expression a comparison target is given before resolution.
ComparisonExpr ==
    IF fCfg.metric_type = "counter"
    THEN <<"rate(">> \o fCfg.metric \o <<"[5m])">>
    ELSE fCfg.metric

\* n targets, one per name in list order with refIds A, B, ..., each with the
\* expression expr, under the mixed marker.
ComparisonMade(expr) ==
    /\ fOut.ok
    /\ fOut.panel.datasource = [type |-> "datasource", uid |-> "-- Mixed --"]
    /\ Len(fOut.panel.targets) = Len(fCfg.datasources)
    /\ \A i \in 1..Len(fCfg.datasources) :
          /\ fOut.panel.targets[i].refId = <<"A", "B", "C">>[i]
          /\ fOut.panel.targets[i].expr = expr
          /\ fOut.panel.targets[i].datasource =
                [type |-> config.Datasources[fCfg.datasources[i]].Type,
                 uid  |-> config.Datasources[fCfg.datasources[i]].UID]

FromTargetSpec ==
    /\ fCall = "FromConfig"
    /\ fCfg.type \in PlainTypes \ {"text"}
    /\ fOut.ok

\* C16: when a spec gives a targets list, with or without the query
\* shorthand, the panel's targets are one per list entry with refIds A, B,
\* ... by position, and the shorthand adds none; with only query there is
\* exactly one target and its refId is A.
C16_ExplicitTargetsOverrideQuery ==
    FromTargetSpec =>
        /\ fCfg.targets # <<>> =>
               /\ Len(fOut.panel.targets) = Len(fCfg.targets)
               /\ \A i \in 1..Len(fCfg.targets) :
                     fOut.panel.targets[i].refId = <<"A", "B", "C">>[i]
        /\ (fCfg.targets = <<>> /\ fCfg.query # <<>>) =>
               /\ Len(fOut.panel.targets) = 1
               /\ fOut.panel.targets[1].refId = "A"

----------------------------------------------------------------------------
(* Claims about the resolvers of the Config (SpecResolver).                *)

\* The entry for a name when a table defines it, the constants first, and
\* the token otherwise.
DefinedEntry(name, token) ==
    IF Len(name) = 1 /\ name[1] \in DOMAIN config.Constants
    THEN config.Constants[name[1]]
    ELSE IF Len(name) = 1 /\ name[1] \in DOMAIN config.Selectors
    THEN config.Selectors[name[1]]
    ELSE token

\* C17: ResolveRef replaces every ${name} of its input by the constants
\* table's entry for name when that table defines name, else by the selectors
\* table's entry when that table defines name, else leaves the token in
\* place; text outside the tokens is unchanged.
C17_ResolveRefByDefinedEntry ==
    rCall = "ResolveRef" => rOut = Substituted(rIn, DefinedEntry)

\* What holds of ResolveRef in place of C17: an entry that is the empty
\* string counts as no entry.
ResolveRefByNonEmptyEntry ==
    rCall = "ResolveRef" => rOut = Substituted(rIn, NonEmptyEntry)

\* What a color string should resolve to: the palette's hex for what follows
\* a leading "$" when the palette has that name, what follows the "$" when it
\* has not, and the string itself without a leading "$".
ColorRule(color) ==
    IF color # <<>> /\ Head(color) = "$"
    THEN IF Len(color) = 2 /\ color[2] \in DOMAIN config.palette
         THEN config.palette[color[2]]
         ELSE SubSeq(color, 2, Len(color))
    ELSE color

\* C18: ResolveColor(s) returns, when s begins with "$", the active palette's
\* hex for the remainder of s if the palette has that name and the bare
\* remainder if not, and s unchanged when it has no leading "$".
C18_ResolveColorByPalette ==
    rCall = "ResolveColor" => rOut = ColorRule(rIn)

\* C18 witness: "$green" resolved to the palette's hex.
C18_Witness ==
    /\ rCall = "ResolveColor"
    /\ rIn = <<"$", "green">>
    /\ rOut = <<"#73BF69">>

\* The steps as authored, [Color, Value] each, behind the argument of the
\* last ResolveThresholds: those of the set a "$name" string names, or those
\* of the inline list, a step without a color having the empty one.
NamesThresholdSet ==
    /\ rIn.kind = "string"
    /\ Len(rIn.str) = 2
    /\ rIn.str[1] = "$"
    /\ rIn.str[2] \in DOMAIN config.Thresholds

Authored ==
    IF rIn.kind = "string"
    THEN config.Thresholds[rIn.str[2]]
    ELSE [i \in 1..Len(rIn.items) |->
             [Color |-> IF rIn.items[i].color = <<>> THEN <<>>
                        ELSE rIn.items[i].color[1],
              Value |-> rIn.items[i].value]]

\* C19: given a "$name" reference to a threshold set or an inline list of
\* {color, value} entries, ResolveThresholds returns one step per authored
\* step in the authored order, each color resolved by ResolveColor's rules
\* and each value, null included, unchanged.
C19_ThresholdStepsInOrder ==
    (rCall = "ResolveThresholds" /\ (rIn.kind = "list" \/ NamesThresholdSet)) =>
        /\ Len(rOut) = Len(Authored)
        /\ \A i \in 1..Len(Authored) :
              /\ rOut[i].Color = ColorRule(Authored[i].Color)
              /\ rOut[i].Value = Authored[i].Value

\* C19 witness: "$health" gave its three steps in order, the first red with
\* a null value, the second green with 1, the third as written.
C19_Witness ==
    /\ rCall = "ResolveThresholds"
    /\ rIn = [kind |-> "string", str |-> <<"$", "health">>]
    /\ rOut = <<[Color |-> <<"#F2495C">>, Value |-> <<>>],
                [Color |-> <<"#73BF69">>, Value |-> <<1>>],
                [Color |-> <<"#FF0000">>, Value |-> <<50>>]>>

\* str holds no reference that a table of the configuration resolves.
Unresolvable(str) ==
    \A i \in 1..Len(str) :
        IsRefAt(str, i) =>
            NonEmptyEntry(SubSeq(str, i + 2, RefEndAt(str, i) - 1),
                          SubSeq(str, i, RefEndAt(str, i)))
                = SubSeq(str, i, RefEndAt(str, i))

\* C20: resolution is idempotent: ResolveRef of what ResolveRef returned is
\* what it returned, and ResolveColor of what ResolveColor returned is what
\* it returned, for every string.
C20_ResolutionIdempotent ==
    rCall \in {"ResolveRef", "ResolveColor"} => rAgain = rOut

\* C20 as it holds: a string with no reference is returned unchanged, so
\* resolving again a result that holds no reference changes nothing: for
\* ResolveRef a string with no ${name} that a table resolves, for ResolveColor
\* a string without a leading "$"; and no step changes the configuration.
C20_UnreferencedIsFixed ==
    /\ [](/\ rCall = "ResolveRef" =>
                /\ Unresolvable(rIn) => rOut = rIn
                /\ Unresolvable(rOut) => rAgain = rOut
          /\ rCall = "ResolveColor" =>
                /\ ~HasDollarPrefix(rIn) => rOut = rIn
                /\ ~HasDollarPrefix(rOut) => rAgain = rOut)
    /\ [][config' = config]_vars

\* C20 witness: "k${k}" became "k5m", which holds no reference and resolved
\* again to itself.
C20_Witness ==
    /\ rCall = "ResolveRef"
    /\ rIn = <<"k", "$", "{", "k", "}">>
    /\ rOut = <<"k", "5m">>
    /\ rAgain = rOut
    /\ Unresolvable(rOut)

----------------------------------------------------------------------------
(* Claims about datasource names the table lacks (SpecFactory).            *)

Missing(name) == name \notin DOMAIN config.Datasources

\* The spec handed to FromConfig names a datasource the table lacks: as the
\* panel's own, among those of a comparison panel, or in a target's override.
NamesMissing ==
    \/ fCfg.type \in PlainTypes /\ fCfg.datasource # "" /\ Missing(fCfg.datasource)
    \/ fCfg.type \in PlainTypes \ {"text"}
          /\ \E i \in 1..Len(fCfg.targets) :
                fCfg.targets[i].datasource # <<>>
                   /\ Missing(fCfg.targets[i].datasource[1])
    \/ fCfg.type = "comparison" /\ Len(fCfg.datasources) >= 2
          /\ \E i \in 1..Len(fCfg.datasources) : Missing(fCfg.datasources[i])

\* The targets the explicit list of the spec gave, after the one of a query.
ListTarget(i) == fOut.panel.targets[i + (IF fCfg.query # <<>> THEN 1 ELSE 0)]

\* C21: a datasource name missing from the table never fails a construction:
\* for every panel kind, the named datasources of a comparison panel and the
\* overrides of a target list included, the construction succeeds and what
\* named the missing datasource gets the default one.
C21_MissingNameFallsBackToDefault ==
    (fCall = "FromConfig" /\ NamesMissing) =>
        /\ fOut.ok
        /\ fCfg.type \in PlainTypes /\ fCfg.datasource # "" /\ Missing(fCfg.datasource)
              => fOut.panel.datasource = GetDefaultDatasource(config)
        /\ fCfg.type \in PlainTypes \ {"text"} =>
              \A i \in 1..Len(fCfg.targets) :
                  (fCfg.targets[i].datasource # <<>>
                      /\ Missing(fCfg.targets[i].datasource[1]))
                  => ListTarget(i).datasource = GetDefaultDatasource(config)

\* What holds in place of C21: a panel of a plain type that names a missing datasource is
\* constructed with the default one; a target whose override names a missing
\* datasource gets the datasource of its panel, which is the default only when
\* the panel names none or a missing one; and a comparison panel that names a
\* missing datasource is not constructed and takes no id.
MissingNameFallsBackButInComparison ==
    (fCall = "FromConfig" /\ NamesMissing) =>
        /\ fCfg.type \in PlainTypes =>
              /\ fOut.ok
              /\ fOut.panel.datasource = NamedOrDefault
              /\ fCfg.type # "text" =>
                    \A i \in 1..Len(fCfg.targets) :
                        (fCfg.targets[i].datasource # <<>>
                            /\ Missing(fCfg.targets[i].datasource[1]))
                        => ListTarget(i).datasource = NamedOrDefault
        /\ fCfg.type = "comparison" =>
              /\ ~fOut.ok
              /\ fOut.panel = NoPanel
              /\ idGen = fLastId

\* No entry of the datasource table is flagged as the default.
NoDefault == \A n \in DOMAIN config.Datasources : ~config.Datasources[n].IsDefault

\* C22: when a panel names a datasource the table lacks and the configuration
\* has no default datasource, the construction fails and no panel is made.
C22_MissingNameWithoutDefaultFails ==
    (/\ fCall = "FromConfig"
     /\ fCfg.type \in PlainTypes
     /\ fCfg.datasource # ""
     /\ Missing(fCfg.datasource)
     /\ NoDefault) =>
        ~fOut.ok /\ fOut.panel = NoPanel

\* What holds in place of C22: the construction succeeds, with the first
\* entry of a table that flags none, or with the built-in reference
\* {prometheus, prometheus} when the table is empty.
MissingNameWithoutDefaultSucceeds ==
    (/\ fCall = "FromConfig"
     /\ fCfg.type \in PlainTypes
     /\ fCfg.datasource # ""
     /\ Missing(fCfg.datasource)
     /\ NoDefault) =>
        /\ fOut.ok
        /\ fOut.panel.datasource =
              IF DOMAIN config.Datasources = {}
              THEN [type |-> "prometheus", uid |-> "prometheus"]
              ELSE [type |-> "loki", uid |-> "uid-b"]

----------------------------------------------------------------------------
(* Claims about BuildVariable and BuildNavigationLinks (SpecCalls).        *)

\* The value the definition of the variable "env" has for key, or def when
\* it does not set the key.
Wrote(key, def) ==
    IF key \in DOMAIN authored.env THEN authored.env[key] ELSE def

\* C23: BuildVariable fails for a name the variable table lacks; for a query
\* variable the output carries a {type, uid} datasource and the query object
\* {query: the resolved text, refId: "StandardVariableQuery"}; for a custom,
\* datasource or interval variable it carries neither a datasource nor a
\* definition key, and its query is the value list or the datasource type.
C23_VariableShapeByKind ==
    bCall = "BuildVariable" =>
        IF bIn.name \notin DOMAIN authored
        THEN ~bOut.ok /\ bOut.v = NoVariable
        ELSE /\ bOut.ok
             /\ bOut.v.name = bIn.name
             /\ bOut.v.type = Wrote("type", "query")
             /\ IF Wrote("type", "query") = "query"
                THEN /\ "datasource" \in DOMAIN bOut.v
                     /\ IsRef(bOut.v.datasource)
                     /\ bOut.v.query =
                           [query |-> Substituted(Wrote("query", <<>>), NonEmptyEntry),
                            refId |-> "StandardVariableQuery"]
                ELSE /\ "datasource" \notin DOMAIN bOut.v
                     /\ "definition" \notin DOMAIN bOut.v
                     /\ bOut.v.query =
                           IF Wrote("type", "query") = "custom"
                           THEN Wrote("values", "")
                           ELSE IF Wrote("type", "query") = "datasource"
                           THEN Wrote("ds_type", "prometheus")
                           ELSE Wrote("values", "1m,5m,15m,30m,1h,6h,12h,1d")

\* C23 witness: a custom variable with the values "x,y" came out with that
\* list as its query and with no datasource.
C23_Witness ==
    /\ bCall = "BuildVariable"
    /\ bIn.name = "env"
    /\ Wrote("type", "") = "custom"
    /\ Wrote("datasource", "") = "b"
    /\ bOut.ok
    /\ bOut.v.query = "x,y"
    /\ "datasource" \notin DOMAIN bOut.v

AllSentinel == [selected |-> TRUE, text |-> "All", value |-> "$__all"]

\* The default selection the definition of "env" configures.
ConfiguredDefault ==
    [selected |-> TRUE,
     text     |-> Wrote("default", [Text |-> "", Value |-> ""]).Text,
     value    |-> Wrote("default", [Text |-> "", Value |-> ""]).Value]

\* C24: the current selection BuildVariable emits is the "All" sentinel for
\* every definition that does not opt out of it, and the configured default
\* text and value only for a definition that opts out (include_all: false).
C24_CurrentIsAllUnlessOptedOut ==
    (bCall = "BuildVariable" /\ bOut.ok) =>
        bOut.v.current = IF Wrote("include_all", TRUE) THEN AllSentinel
                         ELSE ConfiguredDefault

\* C24 as it holds: the current selection is the "All" sentinel exactly for a
\* definition that sets include_all to true; a definition that sets it to
\* false or does not set it gets its configured default text and value, empty
\* when it configures none.
C24_CurrentIsAllWhenOptedIn ==
    (bCall = "BuildVariable" /\ bOut.ok) =>
        /\ bOut.v.current = IF Wrote("include_all", FALSE) THEN AllSentinel
                            ELSE ConfiguredDefault
        /\ bOut.v.includeAll = Wrote("include_all", FALSE)

\* C24 witness: a definition that says nothing of include_all and configures
\* the default t/v came out with that default as its current selection.
C24_Witness ==
    /\ bCall = "BuildVariable"
    /\ bOut.ok
    /\ "include_all" \notin DOMAIN authored.env
    /\ "default" \in DOMAIN authored.env
    /\ bOut.v.current = [selected |-> TRUE, text |-> "t", value |-> "v"]

\* The link of the dashboard d, as the spec describes it.
LinkTo(d) ==
    [title       |-> d.Title,
     type        |-> "link",
     url         |-> <<"/d/", d.UID>>,
     icon        |-> IF d.Icon = "" THEN "apps" ELSE d.Icon,
     targetBlank |-> FALSE,
     keepTime    |-> TRUE,
     includeVars |-> TRUE,
     tooltip     |-> d.Description]

Known(name) == name \in DOMAIN bIn.dashboards

\* C25: BuildNavigationLinks emits exactly one link per name of the order, in
\* that order, with url "/d/" and the dashboard's uid, the icon defaulting to
\* "apps", keepTime and includeVars true and targetBlank false; the link list
\* is as long as the order.
C25_OneLinkPerOrderedName ==
    bCall = "BuildNavigationLinks" =>
        /\ Len(bOut) = Len(bIn.order)
        /\ \A i \in 1..Len(bIn.order) :
              bOut[i] = LinkTo(bIn.dashboards[bIn.order[i]])

\* C25 as it holds: one link per name of the order that the dashboards given
\* have, in the order's order and with the fields above; a name they lack is
\* passed over, so the list is as long as the order only when every name of
\* it is known.
C25_OneLinkPerKnownOrderedName ==
    bCall = "BuildNavigationLinks" =>
        /\ Len(bOut) = Len(SelectSeq(bIn.order, Known))
        /\ \A i \in 1..Len(SelectSeq(bIn.order, Known)) :
              bOut[i] = LinkTo(bIn.dashboards[SelectSeq(bIn.order, Known)[i]])

\* C25 witness: of the order d2, d1, d2 both dashboards got their links, the
\* one without an icon with "apps".
C25_Witness ==
    /\ bCall = "BuildNavigationLinks"
    /\ bIn.order = <<"d2", "d1", "d2">>
    /\ Len(bOut) = 3
    /\ bOut[1].url = <<"/d/", "u2">>
    /\ bOut[1].icon = "home"
    /\ bOut[2].url = <<"/d/", "u1">>
    /\ bOut[2].icon = "apps"

----------------------------------------------------------------------------
(* Claims about builds at the same time (SpecPair).                        *)

\* C26: builds that run at the same time, each with a generator and an engine
\* of its own, do not interfere: whatever the interleaving of their steps,
\* each returns the document it returns when it runs alone on a new
\* generator and a new engine, ids from 1 and positions unshifted.
C26_ConcurrentBuildsAsAlone ==
    \A b \in Handlers :
        bld.run[b].pc = "done" =>
            bld.run[b].result =
                Build(config, NewIDGenerator, NewLayoutEngine, bld.run[b].args)

\* C26 witness: the first handler returned a document of three panels, ids
\* 1 to 3, while the second was between the two sections of its own build
\* with ids taken.
C26_Witness ==
    /\ bld.run[1].pc = "done"
    /\ ~bld.run[1].result.err
    /\ Len(bld.run[1].result.doc[1].panels) = 3
    /\ bld.run[1].result.doc[1].panels[1].id = 1
    /\ bld.run[1].result.doc[1].panels[3].id = 3
    /\ bld.run[2].pc = "sections"
    /\ bld.run[2].secIdx = 2
    /\ Len(PairSecs(2)) = 2
    /\ bld.inst[2].idGen >= 2

----------------------------------------------------------------------------
(* Claims about one section (SpecSection).                                 *)

\* The panels BuildSection made of the section's specs, in their order: the
\* children of the row of a collapsed section, what follows the row of an
\* open one.
Children ==
    IF bIn.section.Collapsed THEN bOut.panels[1].panels ELSE Tail(bOut.panels)

\* The engine the first child of the section is placed with.
ChildEngine ==
    IF bIn.section.Collapsed THEN NewLayoutEngine ELSE AddRow(bIn.lay).le

WidthOf(pcfg) == IF pcfg.width # <<>> THEN pcfg.width[1] ELSE DefaultSizes[pcfg.type][1]

HeightOf(pcfg) == IF pcfg.height # <<>> THEN pcfg.height[1] ELSE DefaultSizes[pcfg.type][2]

\* Where Place puts the panels of specs one after the other, from engine l on.
RECURSIVE PlacedInTurn(_, _)
PlacedInTurn(l, specs) ==
    IF specs = <<>> THEN <<>>
    ELSE <<[x |-> Place(l, WidthOf(Head(specs)), HeightOf(Head(specs))).x,
            y |-> Place(l, WidthOf(Head(specs)), HeightOf(Head(specs))).y]>>
         \o PlacedInTurn(Place(l, WidthOf(Head(specs)), HeightOf(Head(specs))).le,
                         Tail(specs))

\* The engine after those placements.
RECURSIVE EngineAfter(_, _)
EngineAfter(l, specs) ==
    IF specs = <<>> THEN l
    ELSE EngineAfter(Place(l, WidthOf(Head(specs)), HeightOf(Head(specs))).le,
                     Tail(specs))

IsAutoChild(p) == p.title # "fixed"

XY(p) == [x |-> p.gridPos.x, y |-> p.gridPos.y]

\* C27: a panel spec with both an x and a y is emitted at exactly that (x, y)
\* and neither reads nor moves the cursor: the other panels of the section,
\* those with only an x or only a y included, are where Place puts them one
\* after the other when the spec is not there, and the engine ends where it
\* ends without it.
C27_ExplicitPositionBypassesPlacement ==
    (bCall = "BuildSection" /\ bOut.ok) =>
        /\ Len(Children) = Len(bIn.section.Panels)
        /\ \A i \in 1..Len(Children) :
              ~AutoPlaced(bIn.section.Panels[i]) =>
                  XY(Children[i]) = [x |-> bIn.section.Panels[i].x[1],
                                     y |-> bIn.section.Panels[i].y[1]]
        /\ [i \in 1..Len(SelectSeq(Children, IsAutoChild)) |->
               XY(SelectSeq(Children, IsAutoChild)[i])]
              = PlacedInTurn(ChildEngine, SelectSeq(bIn.section.Panels, AutoPlaced))
        /\ ~bIn.section.Collapsed =>
              bOut.layout = FinishSection(EngineAfter(ChildEngine,
                                SelectSeq(bIn.section.Panels, AutoPlaced)))
        /\ bIn.section.Collapsed => bOut.layout = AddRow(bIn.lay).le

\* C27 witness: in an open section on a new engine, between a 3-wide panel
\* and a panel with only an x of 7, a panel is at its own (20, 40); the panel
\* with only an x is at (3, 1), next to the first.
C27_Witness ==
    /\ bCall = "BuildSection"
    /\ bOut.ok
    /\ ~bIn.section.Collapsed
    /\ bIn.lay = NewLayoutEngine
    /\ bIn.section.Panels = <<PStat, PFixed, PXOnly>>
    /\ XY(Children[1]) = [x |-> 0, y |-> 1]
    /\ XY(Children[2]) = [x |-> 20, y |-> 40]
    /\ XY(Children[3]) = [x |-> 3, y |-> 1]

----------------------------------------------------------------------------
(* Claims about the grid of a built dashboard (Spec).                      *)

\* Every panel of every section is placed by the engine.
AllAutoPlaced ==
    \A k \in 1..Len(AllSections) :
       \A i \in 1..Len(AllSections[k].Panels) :
          AutoPlaced(AllSections[k].Panels[i])

\* The rectangles [x, x+w) x [y, y+h) of p and q share no cell.
Disjoint(p, q) ==
    \/ p.gridPos.x + p.gridPos.w <= q.gridPos.x
    \/ q.gridPos.x + q.gridPos.w <= p.gridPos.x
    \/ p.gridPos.y + p.gridPos.h <= q.gridPos.y
    \/ q.gridPos.y + q.gridPos.h <= p.gridPos.y

PairwiseDisjoint(ps) ==
    \A i, j \in 1..Len(ps) : i < j => Disjoint(ps[i], ps[j])

\* C28: in a dashboard whose panels are all auto-placed, with widths in
\* 1..24 and heights of at least 1, no two top-level panels, row panels
\* included, overlap on the grid, across rows and across sections; and no two
\* of the panels nested in one collapsed row overlap.
C28_AutoPlacedPanelsNeverOverlap ==
    (Returned /\ AllAutoPlaced) =>
        /\ \A i \in 1..Len(Top) :
              /\ Top[i].gridPos.w \in 1..GridWidth
              /\ Top[i].gridPos.h >= 1
        /\ PairwiseDisjoint(Top)
        /\ \A i \in 1..Len(Top) :
              Top[i].type = "row" => PairwiseDisjoint(Top[i].panels)

\* C28 witness: an open section whose tall panel and short panel share a row,
\* then a collapsed section of two wide panels that take a row each: the
\* second row panel is below the tall panel, and the nested panels are one
\* above the other.
C28_Witness ==
    /\ Returned
    /\ Len(AllSections) = 2
    /\ AllSections[1] = [Title |-> "s", Collapsed |-> FALSE, Panels |-> <<PWide, PStat>>]
    /\ AllSections[2] = [Title |-> "s", Collapsed |-> TRUE, Panels |-> <<PWide, PWide>>]
    /\ Top[2].gridPos = [h |-> 7, w |-> 13, x |-> 0, y |-> 1]
    /\ Top[3].gridPos = [h |-> 4, w |-> 3, x |-> 13, y |-> 1]
    /\ Top[4].gridPos.y = 8
    /\ Top[4].panels[1].gridPos.y = 0
    /\ Top[4].panels[2].gridPos.y = 7

\* The y of the row panel of section k of a returned document.
RowY(k) == Top[RowIndex(AllSections, k)].gridPos.y

\* The step under way builds a collapsed section.
CollapsedSectionStep ==
    /\ pc \in {"sections", "discovery"}
    /\ secIdx' = secIdx + 1
    /\ LoopSecs[secIdx].Collapsed

\* C29: building a collapsed section changes the dashboard's engine only
\* through one AddRow(), whatever the widths and heights of its children (and
\* not at all when a child fails); so in a returned document the rows of two
\* consecutive collapsed sections are at y and y + 1, and the y of the row
\* panels strictly increases from section to section.
C29_CollapsedSectionMovesCursorByOneRow ==
    /\ [](Returned =>
            \A k \in 1..(Len(AllSections) - 1) :
               /\ RowY(k + 1) > RowY(k)
               /\ (AllSections[k].Collapsed /\ AllSections[k + 1].Collapsed)
                     => RowY(k + 1) = RowY(k) + 1)
    /\ [][CollapsedSectionStep =>
            layout' = IF result'.err THEN layout ELSE AddRow(layout).le]_vars

\* C29 witness: two collapsed sections, the first of two wide panels that
\* take 14 rows of its own grid, the second of one panel: their rows are at
\* y = 0 and y = 1 and the dashboard's cursor is at y = 2.
C29_Witness ==
    /\ Returned
    /\ Len(AllSections) = 2
    /\ AllSections[1] = [Title |-> "s", Collapsed |-> TRUE, Panels |-> <<PWide, PWide>>]
    /\ AllSections[2] = [Title |-> "s", Collapsed |-> TRUE, Panels |-> <<PStat>>]
    /\ Top[1].panels[2].gridPos.y = 7
    /\ RowY(1) = 0
    /\ RowY(2) = 1
    /\ layout = [cursorX |-> 0, cursorY |-> 2, rowHeight |-> 0]

----------------------------------------------------------------------------
(* Claims about the refIds of a panel's targets (SpecFactory).             *)

\* The last call returned a panel that carries targets.
ReturnedTargets ==
    /\ fCall = "FromConfig"
    /\ fOut.ok
    /\ "targets" \in DOMAIN fOut.panel

DistinctRefIds ==
    \A i, j \in 1..Len(fOut.panel.targets) :
       i < j => fOut.panel.targets[i].refId # fOut.panel.targets[j].refId

\* C30: within one panel the refIds of its targets are pairwise distinct,
\* for every combination of a query shorthand and an explicit targets list
\* in the spec and for every datasource list of a comparison panel.
C30_RefIdsPairwiseDistinct == ReturnedTargets => DistinctRefIds

\* What holds in place of C30: the refIds are pairwise distinct unless the
\* spec gives both the query shorthand and a targets list, and then the
\* first two targets both have refId A.
RefIdsDistinctUnlessQueryAndTargets ==
    ReturnedTargets =>
        IF fCfg.type # "comparison" /\ fCfg.query # <<>> /\ fCfg.targets # <<>>
        THEN /\ fOut.panel.targets[1].refId = "A"
             /\ fOut.panel.targets[2].refId = "A"
        ELSE DistinctRefIds

====
